---- MODULE Spec2Model ----
(***************************************************************************)
(* Scheduling / progress engine of the museum quiz bot (src/main.py):      *)
(* the shared daily plan, the per-user cursor and cycle tracker, the       *)
(* review selection and the peek / commit / skip delivery protocol.        *)
(*                                                                         *)
(* Conventions.  Picture ids are the naturals 1..catalogSize; 0 (NoPid)    *)
(* is SQL NULL / Python None for a picture id.  NoTs (-1) is NULL for a    *)
(* timestamp, NoRow (-1) an absent user_day_progress row, cycle_id 0 an    *)
(* absent user_cycle_state row, <<>> an absent global_daily_plan row.      *)
(* A user_picture_state row that does not exist reads exactly like the row *)
(* (last_seen_cycle_id NULL, attempts 0, wrong 0, correct 0), so the table *)
(* is a total function with that default.  Time is counted in ticks; a     *)
(* calendar day has DayLen ticks.                                          *)
(***************************************************************************)
EXTENDS Integers, Sequences, FiniteSets, TLC

\* ---------------------------------------------------------------- bounds
MaxUsers == 2
InitCatalog == 2
MaxCatalog == 3
MaxNow == 3
MaxLog == 2
MaxSecret == 0
\* the longest answer log an earlier deployment has left
BackfillMaxLog == 3
DuoMaxNow == 1
GenMaxLog == 4

\* ------------------------------------------- configuration (environment)
\* the settings a deployment reads from its environment at import time;
\* they never change while the database lives
VARIABLE cfg

\* the deployment most of the analysis runs on
BaseConfig ==
    [DAILY_LIMIT |-> 2, REVIEW_EVERY |-> 2, REVIEW_PREFIX_SLOTS |-> 0,
     GLOBAL_READY_MIN_TOTAL_ATTEMPTS |-> 1, USER_MIN_ATTEMPTS_PER_PICTURE |-> 1]

DayLen == 2
DAILY_LIMIT == cfg.DAILY_LIMIT
REVIEW_EVERY == cfg.REVIEW_EVERY
REVIEW_TAIL_SLOTS == 1
REVIEW_PREFIX_SLOTS == cfg.REVIEW_PREFIX_SLOTS
GLOBAL_READY_MIN_TOTAL_ATTEMPTS == cfg.GLOBAL_READY_MIN_TOTAL_ATTEMPTS
GLOBAL_READY_MIN_PICTURES == 1
GLOBAL_READY_MIN_ATTEMPTS_PER_PICTURE == 1
GLOBAL_TOP_MISTAKES_LIMIT == 2
USER_TOP_MISTAKES_LIMIT == 2
USER_MIN_ATTEMPTS_PER_PICTURE == cfg.USER_MIN_ATTEMPTS_PER_PICTURE
CYCLE_COOLDOWN_SECONDS == 1
MAX_SCAN_SLOTS_PER_PLAY == 4
PLAY_ATTEMPTS == 3
SeedMod == 24

NoPid == 0
NoTs == 0 - 1
NoRow == 0 - 1

Max(a, b) == IF a >= b THEN a ELSE b

Users == 1..MaxUsers
\* the catalog of the five-item deployment
FiveCatalog == 5

Items == 1..Max(MaxCatalog, FiveCatalog)
Days == 0..(MaxNow \div DayLen)
Museums == {"RM", "TG"}


\* ------------------------------------------------------------ the catalog
\* ALL_PICTURE_IDS of a catalog with n valid records
AllPictureIds(n) == [i \in 1..n |-> i]

\* PAINTINGS_BY_ID membership
InCatalog(p, n) == p \in 1..n

\* the museum of a catalog record (the right answer of its question)
MuseumOf(p) == IF p % 2 = 1 THEN "RM" ELSE "TG"

\* --------------------------------------------------- seeded pseudorandom
\* _daily_seed: a keyed hash of the key string; the key is a day, or a day
\* and a user ("day:user"); user 0 stands for the plain day key.
DailySeedOf(sec, d, u) == ((sec + 1) * (7 * d + 5 * u + 3) + d) % SeedMod

Swap(s, i, j) == [s EXCEPT ![i] = s[j], ![j] = s[i]]

\* random.Random(seed).shuffle: for i from the last index down to the
\* second, swap x[i] with x[j], j drawn below i+1; the generator state is
\* consumed draw by draw.
RECURSIVE ShuffleFrom(_, _, _)
ShuffleFrom(s, i, r) ==
    IF i < 2 THEN [seq |-> s, rng |-> r]
    ELSE ShuffleFrom(Swap(s, i, (r % i) + 1), i - 1, r \div i)

Shuffle(s, r) == ShuffleFrom(s, Len(s), r)

\* ------------------------------------------------------ review ranking
ZeroStat == [attempts |-> 0, wrong |-> 0, correct |-> 0]

\* ORDER BY (wrong * 1.0 / attempts) DESC, attempts DESC: the row of p
\* sorts before the row of q
RanksBefore(st, p, q) ==
    \/ st[p].wrong * st[q].attempts > st[q].wrong * st[p].attempts
    \/ /\ st[p].wrong * st[q].attempts = st[q].wrong * st[p].attempts
       /\ st[p].attempts > st[q].attempts

\* the orders in which the rows S can be listed
RECURSIVE Perms(_)
Perms(S) ==
    IF S = {} THEN {<<>>}
    ELSE UNION {{<<x>> \o s : s \in Perms(S \ {x})} : x \in S}

\* the results the ORDER BY can give for the rows S: SQL leaves the order of
\* rows that tie on both keys to the engine
RankedSeqs(st, S) ==
    {s \in Perms(S) :
        \A i, j \in 1..Len(s) : i < j => ~RanksBefore(st, s[j], s[i])}

Truncate(s, limit) == SubSeq(s, 1, IF Len(s) < limit THEN Len(s) ELSE limit)

FilterInCatalog(s, n) == SelectSeq(s, LAMBDA p : InCatalog(p, n))

\* the SELECT shared by _get_global_top_mistakes and _get_user_top_mistakes:
\* the lists it can return
TopMistakes(st, minAttempts, limit, n) ==
    {FilterInCatalog(Truncate(s, limit), n) :
        s \in RankedSeqs(st, {p \in DOMAIN st :
                                st[p].attempts >= minAttempts /\ st[p].wrong > 0})}

RECURSIVE SumAttempts(_, _)
SumAttempts(st, S) ==
    IF S = {} THEN 0
    ELSE LET p == CHOOSE q \in S : TRUE
         IN  st[p].attempts + SumAttempts(st, S \ {p})

IsGlobalReady(g) ==
    IF SumAttempts(g, DOMAIN g) < GLOBAL_READY_MIN_TOTAL_ATTEMPTS THEN FALSE
    ELSE Cardinality({p \in DOMAIN g :
                        g[p].attempts >= GLOBAL_READY_MIN_ATTEMPTS_PER_PICTURE})
            >= GLOBAL_READY_MIN_PICTURES

GetGlobalTopMistakes(g, n) ==
    TopMistakes(g, GLOBAL_READY_MIN_ATTEMPTS_PER_PICTURE, GLOBAL_TOP_MISTAKES_LIMIT, n)

\* --------------------------------------------------- daily plan generator
Slot(k, p) == [kind |-> k, picture_id |-> p]

\* (variant: every bound slot gets the head of the list)
BoundPidFirst(ready, review_ids, idx) ==
    IF ready /\ review_ids # <<>> THEN review_ids[1]
    ELSE NoPid

\* the item a REVIEW slot is bound to: round-robin over review_ids
BoundPid(ready, review_ids, idx) ==
    IF ready /\ review_ids # <<>> THEN review_ids[(idx % Len(review_ids)) + 1]
    ELSE NoPid

PrefixSlots(ready, review_ids) ==
    [i \in 1..Max(0, REVIEW_PREFIX_SLOTS) |->
        Slot("REVIEW", BoundPid(ready, review_ids, i - 1))]

\* (variant: a REVIEW slot after every REVIEW_EVERY NEW slots)
RECURSIVE InterleaveLate(_, _, _, _, _, _)
InterleaveLate(new_order, k, new_since_review, review_cursor, ready, review_ids) ==
    IF k > Len(new_order) THEN [items |-> <<>>, review_cursor |-> review_cursor]
    ELSE LET nsr == new_since_review + 1
             insert == REVIEW_EVERY > 0 /\ nsr >= Max(1, REVIEW_EVERY)
             bound == ready /\ review_ids # <<>>
             rest == InterleaveLate(new_order, k + 1,
                                    IF insert THEN 0 ELSE nsr,
                                    IF insert /\ bound THEN review_cursor + 1
                                                       ELSE review_cursor,
                                    ready, review_ids)
         IN  [items |-> <<Slot("NEW", new_order[k])>>
                        \o (IF insert
                            THEN <<Slot("REVIEW",
                                        BoundPid(ready, review_ids, review_cursor))>>
                            ELSE <<>>)
                        \o rest.items,
              review_cursor |-> rest.review_cursor]

\* the loop over new_order; returns the slots and the final review_cursor
RECURSIVE Interleave(_, _, _, _, _, _)
Interleave(new_order, k, new_since_review, review_cursor, ready, review_ids) ==
    IF k > Len(new_order) THEN [items |-> <<>>, review_cursor |-> review_cursor]
    ELSE LET nsr == new_since_review + 1
             insert == REVIEW_EVERY > 0 /\ nsr >= Max(1, REVIEW_EVERY - 1)
             bound == ready /\ review_ids # <<>>
             rest == Interleave(new_order, k + 1,
                                IF insert THEN 0 ELSE nsr,
                                IF insert /\ bound THEN review_cursor + 1
                                                   ELSE review_cursor,
                                ready, review_ids)
         IN  [items |-> <<Slot("NEW", new_order[k])>>
                        \o (IF insert
                            THEN <<Slot("REVIEW",
                                        BoundPid(ready, review_ids, review_cursor))>>
                            ELSE <<>>)
                        \o rest.items,
              review_cursor |-> rest.review_cursor]

TailSlots(ready, review_ids, review_cursor) ==
    [i \in 1..Max(0, REVIEW_TAIL_SLOTS) |->
        Slot("REVIEW", BoundPid(ready, review_ids, review_cursor + (i - 1)))]

\* the slot list ensure_global_daily_plan assembles, given the readiness
\* flag and the ranked list it has read
AssemblePlan(sec, d, n, ready, top) ==
    LET sh == Shuffle(AllPictureIds(n), DailySeedOf(sec, d, 0))
        new_order == sh.seq
        review_ids == IF ready THEN Shuffle(top, sh.rng).seq ELSE <<>>
        mid == Interleave(new_order, 1, 0, 0, ready, review_ids)
    IN  PrefixSlots(ready, review_ids) \o mid.items
            \o TailSlots(ready, review_ids, mid.review_cursor)

\* the slot lists ensure_global_daily_plan can assemble from the statistics g
BuildPlans(sec, d, n, g) ==
    IF IsGlobalReady(g)
    THEN {AssemblePlan(sec, d, n, TRUE, top) : top \in GetGlobalTopMistakes(g, n)}
    ELSE {AssemblePlan(sec, d, n, FALSE, <<>>)}


\* ------------------------------------------- catalog reverse-lookup index
\* Descriptive fields are written <<k, form>>: the text k in its canonical
\* form or in a raw form (other case, padding).  _canon maps every form of a
\* text to the canonical one.  The four descriptive fields of a record are
\* folded into one (title); url is the media reference.
Canon(s) == <<s[1], "canon">>

TitleOf(p) == <<(p + 1) \div 2, "raw">>
UrlOf(p) == <<p, "canon">>

Key4FromFields(title) == Canon(title)
Key5FromFields(title, url) == <<Canon(title), Canon(url)>>

\* CATALOG_BY_KEY4[k4] (the ids sharing the descriptive fields)
CatalogByKey4(k4, n) == {p \in 1..n : Key4FromFields(TitleOf(p)) = k4}
\* the ids stored under k5 in CATALOG_BY_KEY5 (the last one written wins)
CatalogByKey5(k5, n) == {p \in 1..n : Key5FromFields(TitleOf(p), UrlOf(p)) = k5}

SetMax(S) == CHOOSE x \in S : \A y \in S : y <= x

ResolvePictureId(picture_id, title, url, n) ==
    IF picture_id # NoPid /\ InCatalog(picture_id, n) THEN picture_id
    ELSE IF CatalogByKey5(Key5FromFields(title, url), n) # {}
         THEN SetMax(CatalogByKey5(Key5FromFields(title, url), n))
    ELSE IF Cardinality(CatalogByKey4(Key4FromFields(title), n)) = 1
         THEN SetMax(CatalogByKey4(Key4FromFields(title), n))
    ELSE NoPid

\* ------------------------------------------------------------------ state
VARIABLES
    up,           \* the process is running (main has loaded the catalog)
    catalogSize,  \* len(ALL_PICTURE_IDS) of the running process
    now,          \* the clock, in ticks
    secret,       \* GLOBAL_PLAN_SECRET
    plan,         \* global_daily_plan: day -> slot list
    cursor,       \* user_day_progress: user -> day -> cursor
    cycle,        \* user_cycle_state: user -> row
    ups,          \* user_picture_state: user -> picture -> row
    gps,          \* global_picture_state: picture -> row
    quota,        \* daily_quota: user -> day -> used
    session,      \* sessions: user -> row
    log,          \* painting_results, in insertion order
    backfillDone, \* meta row backfill_v2 = '1'
    statsQueue,   \* stats_queue: user -> stats date -> none / unsent / sent
    pc,           \* where each user's handler stands
    attempt,      \* _attempt of the running play loop
    cand,         \* the candidate the play loop holds
    hasButton,    \* the user has a delivered question with its answer buttons
    retNew,       \* history: NEW candidates returned per item in the current cycle
    failMsgs,     \* history: generic failure messages sent by the current play
    prior,        \* history: the aggregate tables as the backfill found them
    sent,         \* history: user -> stats date -> summary messages sent
    answered,     \* history: user -> the question of the sessions row has been
                  \* answered since save_session_pending stored it
    backlog,      \* stats_queue: the due unsent rows, older than every row of
                  \* Users, of recipients that can no longer be reached
    playHist,     \* history: the user's rows when the current play began, the
                  \* slots it has skipped, and every slot skipped so far
    ep            \* the calls of ensure_global_daily_plan in progress, per caller

vars == <<cfg, up, catalogSize, now, secret, plan, cursor, cycle, ups, gps, quota,
          session, log, backfillDone, statsQueue, pc, attempt, cand, hasButton,
          retNew, failMsgs, playHist, prior, sent, answered, backlog, ep>>

TodayKey(t) == t \div DayLen

NoCycle == [cycle_id |-> 0, completed_at |-> NoTs, snapshot |-> 0, seen_count |-> 0]
NoUps == [last_seen_cycle_id |-> 0, attempts |-> 0, wrong |-> 0, correct |-> 0]
NoPending == [day_key |-> NoRow, slot_index |-> NoRow, next_cursor |-> NoRow,
              cycle_id |-> 0, kind |-> "NULL"]
NoSession == [row |-> FALSE, q_picture_id |-> NoPid, q_title |-> <<0, "canon">>,
              q_museum |-> "", q_image_url |-> <<0, "canon">>, pending |-> NoPending]
\* a caller of ensure_global_daily_plan: where it stands (idle, ready, top,
\* insert, reread, done), its day_key, the global_ready it has read, the
\* items it has assembled and the plan it has returned
NoCall == [pc |-> "idle", day_key |-> NoRow, global_ready |-> FALSE,
           items |-> <<>>, returned |-> <<>>]
\* the slot a candidate stands for
SlotOf(c) == [day_key |-> c.day_key, slot_index |-> c.slot_index]

\* the history of a play that has not skipped anything
NoHist == [quota |-> [d \in Days |-> 0], cycle |-> NoCycle,
           failed |-> {}, skipped |-> {}]
\* the history once a play has ended without the failure message
EndHist(h) == [NoHist EXCEPT !.skipped = h.skipped]

NoCand == [day_key |-> NoRow, slot_index |-> NoRow, next_cursor |-> NoRow,
           cycle_id |-> 0, kind |-> "NULL", picture_id |-> NoPid]

\* rows an older version of the bot, which stored no picture ids, has left
\* in painting_results
LegacyRow(u, p, form, urlKnown, ok) ==
    [user_id |-> u, picture_id |-> NoPid, title |-> <<(p + 1) \div 2, form>>,
     image_url |-> IF urlKnown THEN UrlOf(p) ELSE <<0, "canon">>,
     is_correct |-> ok]

LegacyLogs ==
    {<<>>,
     <<LegacyRow(MaxUsers, 1, "raw", TRUE, FALSE)>>,
     <<LegacyRow(1, 1, "canon", FALSE, TRUE)>>,
     <<LegacyRow(1, 1, "canon", TRUE, FALSE), LegacyRow(1, 2, "raw", TRUE, TRUE)>>}

\* empty aggregate tables
NoPrior == [gps |-> [p \in Items |-> ZeroStat],
            ups |-> [u \in Users |-> [p \in Items |-> NoUps]]]

\* the database and the handlers before the first start of the process
InitDb ==
    /\ up = FALSE
    /\ catalogSize = 0
    /\ now = 0
    /\ secret \in 0..MaxSecret
    /\ plan = [d \in Days |-> <<>>]
    /\ cursor = [u \in Users |-> [d \in Days |-> NoRow]]
    /\ cycle = [u \in Users |-> NoCycle]
    /\ ups = [u \in Users |-> [p \in Items |-> NoUps]]
    /\ gps = [p \in Items |-> ZeroStat]
    /\ quota = [u \in Users |-> [d \in Days |-> 0]]
    /\ session = [u \in Users |-> NoSession]
    /\ log \in LegacyLogs
    /\ backfillDone = FALSE
    /\ statsQueue = [u \in Users |-> [d \in Days |-> "none"]]
    /\ pc = [u \in Users |-> "idle"]
    /\ attempt = [u \in Users |-> 0]
    /\ cand = [u \in Users |-> NoCand]
    /\ hasButton = [u \in Users |-> FALSE]
    /\ retNew = [u \in Users |-> [p \in Items |-> 0]]
    /\ failMsgs = [u \in Users |-> 0]
    /\ playHist = [u \in Users |-> NoHist]
    /\ prior = NoPrior
    /\ sent = [u \in Users |-> [d \in Days |-> [sends |-> 0, fails |-> 0]]]
    /\ answered = [u \in Users |-> FALSE]
    /\ backlog = 0
    /\ ep = [u \in Users |-> NoCall]

Init == cfg = BaseConfig /\ InitDb


\* ---------------------------------------------------------- cycle tracker
\* (variant: a completed cycle is followed by the next at once)
GetOrAdvanceCycleNoCooldown(row, current_total, now_ts) ==
    IF row.cycle_id = 0
    THEN [cycle_id |-> 1, completed_at |-> NoTs, snapshot |-> current_total,
          seen_count |-> 0]
    ELSE LET grown == IF current_total > row.snapshot
                      THEN [row EXCEPT !.snapshot = current_total,
                                       !.completed_at = NoTs]
                      ELSE row
         IN  IF grown.completed_at # NoTs
             THEN [cycle_id |-> grown.cycle_id + 1, completed_at |-> NoTs,
                   snapshot |-> current_total, seen_count |-> 0]
             ELSE grown

\* (variant: the cooldown is looked at before the growth of the catalog)
GetOrAdvanceCycleCooldownFirst(row, current_total, now_ts) ==
    IF row.cycle_id = 0
    THEN [cycle_id |-> 1, completed_at |-> NoTs, snapshot |-> current_total,
          seen_count |-> 0]
    ELSE IF row.completed_at # NoTs
            /\ (now_ts - row.completed_at) >= CYCLE_COOLDOWN_SECONDS
         THEN [cycle_id |-> row.cycle_id + 1, completed_at |-> NoTs,
               snapshot |-> current_total, seen_count |-> 0]
         ELSE IF current_total > row.snapshot
              THEN [row EXCEPT !.snapshot = current_total, !.completed_at = NoTs]
              ELSE row

\* _get_or_advance_cycle: the row it leaves in user_cycle_state
GetOrAdvanceCycle(row, current_total, now_ts) ==
    IF row.cycle_id = 0
    THEN [cycle_id |-> 1, completed_at |-> NoTs, snapshot |-> current_total,
          seen_count |-> 0]
    ELSE LET grown == IF current_total > row.snapshot
                      THEN [row EXCEPT !.snapshot = current_total,
                                       !.completed_at = NoTs]
                      ELSE row
         IN  IF grown.completed_at # NoTs
                /\ (now_ts - grown.completed_at) >= CYCLE_COOLDOWN_SECONDS
             THEN [cycle_id |-> grown.cycle_id + 1, completed_at |-> NoTs,
                   snapshot |-> current_total, seen_count |-> 0]
             ELSE grown

\* (variant: the commit leaves the item's seen mark as it was)
BumpUpsNoMark(row, cycle_id) == row

\* _bump_cycle_seen_if_first_time_this_cycle: the user_picture_state row
BumpUps(row, cycle_id) == [row EXCEPT !.last_seen_cycle_id = cycle_id]

\* (variant: counts every commit, first time in the cycle or not)
BumpCycleEveryTime(crow, urow, cycle_id, now_ts) ==
    IF crow.cycle_id = 0 THEN crow
    ELSE LET seen == crow.seen_count + 1
         IN  [crow EXCEPT !.seen_count = seen,
                          !.completed_at =
                              IF crow.completed_at = NoTs /\ seen >= crow.snapshot
                              THEN now_ts ELSE crow.completed_at]

\* (variant: completes only beyond the snapshot)
BumpCycleStrict(crow, urow, cycle_id, now_ts) ==
    IF urow.last_seen_cycle_id = cycle_id \/ crow.cycle_id = 0 THEN crow
    ELSE LET seen == crow.seen_count + 1
         IN  [crow EXCEPT !.seen_count = seen,
                          !.completed_at =
                              IF crow.completed_at = NoTs /\ seen > crow.snapshot
                              THEN now_ts ELSE crow.completed_at]

\* _bump_cycle_seen_if_first_time_this_cycle: the user_cycle_state row.
\* The UPDATEs match no row when the user has no cycle row.
BumpCycle(crow, urow, cycle_id, now_ts) ==
    IF urow.last_seen_cycle_id = cycle_id \/ crow.cycle_id = 0 THEN crow
    ELSE LET seen == crow.seen_count + 1
         IN  [crow EXCEPT !.seen_count = seen,
                          !.completed_at =
                              IF crow.completed_at = NoTs /\ seen >= crow.snapshot
                              THEN now_ts ELSE crow.completed_at]

\* ------------------------------------------------ candidate resolver
\* (variant: one attempt is enough to be listed)
GetUserTopMistakesAnyAttempts(urows, n) ==
    TopMistakes(urows, 1, USER_TOP_MISTAKES_LIMIT, n)

GetUserTopMistakes(urows, n) ==
    TopMistakes(urows, USER_MIN_ATTEMPTS_PER_PICTURE, USER_TOP_MISTAKES_LIMIT, n)

\* _pick_user_review_fallback, given the list lst its query returns
PickUserReviewFallback(lst, sec, u, d, i) ==
    IF lst = <<>> THEN NoPid
    ELSE lst[((DailySeedOf(sec, d, u) + i) % Len(lst)) + 1]

\* (variant: any row counts, attempted or not)
ReviewIsEligibleAlways(urows, p) == urows[p].attempts >= 0

ReviewIsEligible(urows, p) == urows[p].attempts > 0

\* the item a REVIEW slot resolves to
ReviewPid(slot, lst, sec, u, d, i) ==
    IF slot.picture_id # NoPid THEN slot.picture_id
    ELSE PickUserReviewFallback(lst, sec, u, d, i)

\* (variant: no look at last_seen_cycle_id)
NewAcceptsAnyCycle(slot, urows, cycle_id, n) ==
    /\ slot.picture_id # NoPid
    /\ InCatalog(slot.picture_id, n)

\* the acceptance rule of a NEW slot
NewAccepts(slot, urows, cycle_id, n) ==
    /\ slot.picture_id # NoPid
    /\ InCatalog(slot.picture_id, n)
    /\ urows[slot.picture_id].last_seen_cycle_id # cycle_id

\* the acceptance rule of a REVIEW slot that resolves to chosen
ReviewAccepts(chosen, urows, n) ==
    /\ chosen # NoPid
    /\ InCatalog(chosen, n)
    /\ ReviewIsEligible(urows, chosen)

\* (variant: the loop passes over every REVIEW slot)
RECURSIVE ScanSlotsNewOnly(_, _, _, _, _, _, _, _, _, _)
ScanSlotsNewOnly(items, i, scan, urows, lst, cycle_id, sec, u, d, n) ==
    IF ~(scan < MAX_SCAN_SLOTS_PER_PLAY /\ i < Len(items))
    THEN [found |-> FALSE, i |-> i, kind |-> "NULL", picture_id |-> NoPid]
    ELSE IF items[i + 1].kind = "NEW" /\ NewAccepts(items[i + 1], urows, cycle_id, n)
         THEN [found |-> TRUE, i |-> i, kind |-> "NEW",
               picture_id |-> items[i + 1].picture_id]
         ELSE ScanSlotsNewOnly(items, i + 1, scan + 1, urows, lst, cycle_id,
                               sec, u, d, n)

\* the while loop of peek_next_candidate; lst is the list the query of the
\* user's top mistakes returns during this call
RECURSIVE ScanSlots(_, _, _, _, _, _, _, _, _, _)
ScanSlots(items, i, scan, urows, lst, cycle_id, sec, u, d, n) ==
    IF ~(scan < MAX_SCAN_SLOTS_PER_PLAY /\ i < Len(items))
    THEN [found |-> FALSE, i |-> i, kind |-> "NULL", picture_id |-> NoPid]
    ELSE LET slot == items[i + 1]
             chosen == ReviewPid(slot, lst, sec, u, d, i)
         IN  IF slot.kind = "NEW" /\ NewAccepts(slot, urows, cycle_id, n)
             THEN [found |-> TRUE, i |-> i, kind |-> "NEW",
                   picture_id |-> slot.picture_id]
             ELSE IF slot.kind = "REVIEW" /\ ReviewAccepts(chosen, urows, n)
             THEN [found |-> TRUE, i |-> i, kind |-> "REVIEW", picture_id |-> chosen]
             ELSE ScanSlots(items, i + 1, scan + 1, urows, lst, cycle_id,
                            sec, u, d, n)

\* (variant: INSERT OR REPLACE, the row is reset)
EnsureUserDayProgressReplace(row) == 0

\* _ensure_user_day_progress: INSERT OR IGNORE a row with cursor 0, then
\* read the row
EnsureUserDayProgress(row) == IF row = NoRow THEN 0 ELSE row

\* the cursor a row of user_day_progress stands for (no row: 0)
CursorVal(row) == IF row = NoRow THEN 0 ELSE row
CursorOf(u, d) == CursorVal(cursor[u][d])

\* (variant: the scan position is stored after every scan)
PeekCursorAlways(found, cur, i) == i

\* the cursor peek_next_candidate leaves in the row: untouched when a
\* candidate is returned, the scan boundary when none is
PeekCursor(found, cur, i) == IF found THEN cur ELSE i

\* (variant: INSERT OR REPLACE, the later writer wins)
PlanInsertOrReplace(pl, d, items) == [pl EXCEPT ![d] = items]

\* INSERT OR IGNORE INTO global_daily_plan: the table after the statement
PlanInsertOrIgnore(pl, d, items) ==
    IF pl[d] = <<>> THEN [pl EXCEPT ![d] = items] ELSE pl

\* (variant: the plan is assembled and stored at every call)
EnsuredPlansRebuild(d) ==
    {[plan EXCEPT ![d] = items] :
        items \in BuildPlans(secret, d, catalogSize, gps)}

\* ensure_global_daily_plan run without interruption: the tables it can
\* leave (the call returns row d of the table)
EnsuredPlans(d) ==
    IF plan[d] # <<>> THEN {plan}
    ELSE {PlanInsertOrIgnore(plan, d, items) :
             items \in BuildPlans(secret, d, catalogSize, gps)}

\* _enqueue_tomorrow_stats: INSERT ... ON CONFLICT(user_id, stats_date) DO NOTHING
EnqueueTomorrowStats(u) ==
    LET d == TodayKey(now)
    IN  [statsQueue EXCEPT ![u][d] = IF @ = "none" THEN "unsent" ELSE @]

\* no handler is running
AllIdle == \A u \in Users : pc[u] = "idle" /\ ep[u].pc \in {"idle", "done"}


\* ------------------------------------------------- one-time backfill
\* the id resolve_picture_id gives row i of the log
LogResolved(i, n) ==
    ResolvePictureId(log[i].picture_id, log[i].title, log[i].image_url, n)

\* global_agg[p], and user_agg[(u, p)] when u is a user (u = 0: every user)
LogAgg(u, p, n) ==
    LET rows == {i \in 1..Len(log) :
                    LogResolved(i, n) = p /\ (u = 0 \/ log[i].user_id = u)}
    IN  [attempts |-> Cardinality(rows),
         wrong |-> Cardinality({i \in rows : ~log[i].is_correct}),
         correct |-> Cardinality({i \in rows : log[i].is_correct})]

\* user_seen_set[u]
LogSeenSet(u, n) ==
    {p \in 1..n : \E i \in 1..Len(log) : log[i].user_id = u /\ LogResolved(i, n) = p}

BackfillLog(n) ==
    [i \in 1..Len(log) |->
        IF log[i].picture_id = NoPid /\ LogResolved(i, n) # NoPid
        THEN [log[i] EXCEPT !.picture_id = LogResolved(i, n)]
        ELSE log[i]]

\* (variant: the upsert adds the recomputed counters to the stored ones)
BackfillGpsAdditive(n) ==
    [p \in Items |->
        [attempts |-> gps[p].attempts + LogAgg(0, p, n).attempts,
         wrong |-> gps[p].wrong + LogAgg(0, p, n).wrong,
         correct |-> gps[p].correct + LogAgg(0, p, n).correct]]

BackfillGps(n) ==
    [p \in Items |-> IF LogAgg(0, p, n).attempts > 0 THEN LogAgg(0, p, n) ELSE gps[p]]

BackfillUps(n) ==
    [u \in Users |-> [p \in Items |->
        IF LogAgg(u, p, n).attempts > 0
        THEN [last_seen_cycle_id |-> 1,
              attempts |-> LogAgg(u, p, n).attempts,
              wrong |-> LogAgg(u, p, n).wrong,
              correct |-> LogAgg(u, p, n).correct]
        ELSE ups[u][p]]]

BackfillCycle(n, now_ts) ==
    [u \in Users |->
        IF LogSeenSet(u, n) # {}
        THEN [cycle_id |-> 1,
              completed_at |-> IF Cardinality(LogSeenSet(u, n)) >= n
                               THEN now_ts ELSE NoTs,
              snapshot |-> n,
              seen_count |-> Cardinality(LogSeenSet(u, n))]
        ELSE cycle[u]]

\* (variant: the meta flag is not consulted)
BackfillAlways(n) ==
    IF Len(log) = 0
    THEN /\ backfillDone' = TRUE
         /\ UNCHANGED <<log, gps, ups, cycle>>
    ELSE /\ log' = BackfillLog(n)
         /\ gps' = BackfillGps(n)
         /\ ups' = BackfillUps(n)
         /\ cycle' = BackfillCycle(n, now)
         /\ backfillDone' = TRUE

\* backfill_picture_states_if_needed, run by main with a catalog of n records
BackfillIfNeeded(n) ==
    IF backfillDone \/ Len(log) = 0
    THEN /\ backfillDone' = TRUE
         /\ UNCHANGED <<log, gps, ups, cycle, prior, sent, answered>>
    ELSE /\ log' = BackfillLog(n)
         /\ gps' = BackfillGps(n)
         /\ ups' = BackfillUps(n)
         /\ cycle' = BackfillCycle(n, now)
         /\ backfillDone' = TRUE

\* ---------------------------------------------------------------- actions
\* main(): the process starts (or restarts after a shutdown with no handler
\* running) with a catalog of n records; the catalog never shrinks
Main(n) ==
    /\ IF up THEN AllIdle /\ n > catalogSize ELSE n >= InitCatalog
    /\ up' = TRUE
    /\ catalogSize' = n
    /\ BackfillIfNeeded(n)
    /\ ep' = [u \in Users |-> NoCall]
    /\ prior' = IF backfillDone THEN prior
                 ELSE [gps |-> gps, ups |-> ups]
    /\ UNCHANGED <<now, secret, cfg, backlog, plan, cursor, quota, session, statsQueue, pc,
                   attempt, cand, hasButton, retNew, failMsgs, playHist, sent,
                   answered>>

\* the clock advances
Tick ==
    /\ now < MaxNow
    /\ now' = now + 1
    /\ UNCHANGED <<up, catalogSize, secret, cfg, backlog, plan, cursor, cycle, ups, gps, quota,
                   session, log, backfillDone, statsQueue, pc, attempt, cand,
                   hasButton, retNew, failMsgs, playHist, ep, prior, sent, answered>>

\* play, up to its loop: the quota check.  It runs for a /play command
\* (pc = idle) and as the auto-advance at the end of on_callback (pc = start).
\* (variant: the limit counts as reached only once it is exceeded)
QuotaReachedLax(used) == used > DAILY_LIMIT

\* play: the test "used >= DAILY_LIMIT" on get_used_today
QuotaReached(used) == used >= DAILY_LIMIT

Play(u) ==
    /\ up
    /\ pc[u] \in {"idle", "start"}
    /\ failMsgs' = [failMsgs EXCEPT ![u] = 0]
    /\ playHist' = [playHist EXCEPT ![u] =
                       [quota |-> quota[u], cycle |-> cycle[u], failed |-> {},
                        skipped |-> @.skipped]]
    /\ attempt' = [attempt EXCEPT ![u] = 0]
    /\ IF QuotaReached(quota[u][TodayKey(now)])
       THEN /\ statsQueue' = EnqueueTomorrowStats(u)
            /\ pc' = [pc EXCEPT ![u] = "idle"]
       ELSE /\ pc' = [pc EXCEPT ![u] = "peek"]
            /\ UNCHANGED statsQueue
    /\ UNCHANGED <<up, catalogSize, now, secret, cfg, backlog, plan, cursor, cycle, ups, gps,
                   quota, session, log, backfillDone, cand, hasButton, retNew, ep, prior, sent, answered>>

\* one iteration of the play loop up to the delivery call:
\* peek_next_candidate, then either "nothing today" or save_session_pending
Peek(u) ==
    /\ up
    /\ pc[u] = "peek"
    /\ \E d \in {TodayKey(now)} :
       \E tbl \in EnsuredPlans(d) :
       \E lst \in GetUserTopMistakes(ups[u], catalogSize) :
       \E cyc \in {GetOrAdvanceCycle(cycle[u], catalogSize, now)} :
       \E cur \in {EnsureUserDayProgress(cursor[u][d])} :
       \E r \in {ScanSlots(tbl[d], cur, 0, ups[u], lst, cyc.cycle_id,
                            secret, u, d, catalogSize)} :
       LET base == IF cyc.cycle_id # cycle[u].cycle_id
                   THEN [p \in Items |-> 0] ELSE retNew[u]
       IN  /\ plan' = tbl
           /\ cycle' = [cycle EXCEPT ![u] = cyc]
           /\ cursor' = [cursor EXCEPT ![u][d] = PeekCursor(r.found, cur, r.i)]
           /\ IF r.found
              THEN /\ cand' = [cand EXCEPT ![u] =
                                  [day_key |-> d, slot_index |-> r.i,
                                   next_cursor |-> r.i + 1,
                                   cycle_id |-> cyc.cycle_id, kind |-> r.kind,
                                   picture_id |-> r.picture_id]]
                   /\ session' = [session EXCEPT ![u] =
                                  [row |-> TRUE, q_picture_id |-> r.picture_id,
                                   q_title |-> TitleOf(r.picture_id),
                                   q_museum |-> MuseumOf(r.picture_id),
                                   q_image_url |-> UrlOf(r.picture_id),
                                   pending |-> [day_key |-> d, slot_index |-> r.i,
                                                next_cursor |-> r.i + 1,
                                                cycle_id |-> cyc.cycle_id,
                                                kind |-> r.kind]]]
                   /\ retNew' = [retNew EXCEPT ![u] =
                                  IF r.kind = "NEW"
                                  THEN [base EXCEPT ![r.picture_id] = @ + 1]
                                  ELSE base]
                   /\ pc' = [pc EXCEPT ![u] = "sending"]
                   /\ answered' = [answered EXCEPT ![u] = FALSE]
                   /\ UNCHANGED <<statsQueue, playHist, prior, sent>>
              ELSE /\ statsQueue' = EnqueueTomorrowStats(u)
                   /\ retNew' = [retNew EXCEPT ![u] = base]
                   /\ pc' = [pc EXCEPT ![u] = "idle"]
                   /\ playHist' = [playHist EXCEPT ![u] = EndHist(@)]
                   /\ UNCHANGED <<cand, session, prior, sent, answered>>
    /\ UNCHANGED <<up, catalogSize, now, secret, cfg, backlog, ups, gps, quota, log,
                   backfillDone, attempt, hasButton, failMsgs, ep, prior, sent>>

\* the rows of one user that commit_candidate and skip_candidate_slot touch
UserState(u) ==
    [cursor |-> cursor[u], ups |-> ups[u], cycle |-> cycle[u], quota |-> quota[u],
     session |-> session[u]]

\* inc_used_today_tx: the row of the day it is called on
IncUsedToday(q, now_ts) == [q EXCEPT ![TodayKey(now_ts)] = @ + 1]

\* (variant: the quota is not credited)
CommitCandidateNoQuota(st, c, now_ts) ==
    [cursor |-> [st.cursor EXCEPT ![c.day_key] = c.next_cursor],
     ups |-> [st.ups EXCEPT ![c.picture_id] = BumpUps(@, c.cycle_id)],
     cycle |-> BumpCycle(st.cycle, st.ups[c.picture_id], c.cycle_id, now_ts),
     quota |-> st.quota,
     session |-> [st.session EXCEPT !.pending = NoPending]]

\* commit_candidate: the four writes of its transaction
CommitCandidate(st, c, now_ts) ==
    [cursor |-> [st.cursor EXCEPT ![c.day_key] = c.next_cursor],
     ups |-> [st.ups EXCEPT ![c.picture_id] = BumpUps(@, c.cycle_id)],
     cycle |-> BumpCycle(st.cycle, st.ups[c.picture_id], c.cycle_id, now_ts),
     quota |-> IncUsedToday(st.quota, now_ts),
     session |-> [st.session EXCEPT !.pending = NoPending]]

\* (variant: the cursor is left on the skipped slot)
SkipCandidateSlotStay(st, c) ==
    [st EXCEPT !.cursor = [@ EXCEPT ![c.day_key] = c.slot_index]]

\* (variant: the skipped slot is credited to the quota)
SkipCandidateSlotCredits(st, c) ==
    [st EXCEPT !.cursor = [@ EXCEPT ![c.day_key] = c.next_cursor],
               !.quota = [@ EXCEPT ![c.day_key] = @ + 1]]

\* skip_candidate_slot
SkipCandidateSlot(st, c) ==
    [st EXCEPT !.cursor = [@ EXCEPT ![c.day_key] = c.next_cursor]]

\* (variant: the cursor is written without the user_id condition)
StoreUserStateAnyUser(u, st) ==
    /\ cursor' = [v \in Users |-> st.cursor]
    /\ ups' = [ups EXCEPT ![u] = st.ups]
    /\ cycle' = [cycle EXCEPT ![u] = st.cycle]
    /\ quota' = [quota EXCEPT ![u] = st.quota]
    /\ session' = [session EXCEPT ![u] = st.session]

\* the user's rows become st
StoreUserState(u, st) ==
    /\ cursor' = [cursor EXCEPT ![u] = st.cursor]
    /\ ups' = [ups EXCEPT ![u] = st.ups]
    /\ cycle' = [cycle EXCEPT ![u] = st.cycle]
    /\ quota' = [quota EXCEPT ![u] = st.quota]
    /\ session' = [session EXCEPT ![u] = st.session]

\* the delivery call returns and commit_candidate runs
DeliverOk(u) ==
    /\ pc[u] = "sending"
    /\ StoreUserState(u, CommitCandidate(UserState(u), cand[u], now))
    /\ hasButton' = [hasButton EXCEPT ![u] = TRUE]
    /\ cand' = [cand EXCEPT ![u] = NoCand]
    /\ playHist' = [playHist EXCEPT ![u] = EndHist(@)]
    /\ pc' = [pc EXCEPT ![u] = "idle"]
    /\ UNCHANGED <<up, catalogSize, now, secret, cfg, backlog, plan, gps, log, backfillDone,
                   statsQueue, attempt, retNew, failMsgs, ep, prior, sent, answered>>

\* what the play loop does after skip_candidate_slot: the next iteration, or
\* the generic failure message after the last one
AfterSkip(u) ==
    /\ cand' = [cand EXCEPT ![u] = NoCand]
    /\ playHist' = [playHist EXCEPT
                       ![u].failed = @ \cup {SlotOf(cand[u])},
                       ![u].skipped = @ \cup {SlotOf(cand[u])}]
    /\ IF attempt[u] + 1 < PLAY_ATTEMPTS
       THEN /\ attempt' = [attempt EXCEPT ![u] = @ + 1]
            /\ pc' = [pc EXCEPT ![u] = "peek"]
            /\ UNCHANGED failMsgs
       ELSE /\ attempt' = [attempt EXCEPT ![u] = 0]
            /\ pc' = [pc EXCEPT ![u] = "idle"]
            /\ failMsgs' = [failMsgs EXCEPT ![u] = @ + 1]

\* the delivery call raises and skip_candidate_slot runs
DeliverFail(u) ==
    /\ pc[u] = "sending"
    /\ StoreUserState(u, SkipCandidateSlot(UserState(u), cand[u]))
    /\ AfterSkip(u)
    /\ UNCHANGED <<up, catalogSize, now, secret, cfg, backlog, plan, gps, log, backfillDone,
                   statsQueue, hasButton, retNew, ep, prior, sent, answered>>

\* the delivery call returns but the transaction of commit_candidate raises
\* (a database error): it is rolled back, and the except branch of play
\* skips the slot
CommitFail(u) ==
    /\ pc[u] = "sending"
    /\ StoreUserState(u, SkipCandidateSlot(UserState(u), cand[u]))
    /\ AfterSkip(u)
    /\ hasButton' = [hasButton EXCEPT ![u] = TRUE]
    /\ UNCHANGED <<up, catalogSize, now, secret, cfg, backlog, plan, gps, log, backfillDone,
                   statsQueue, retNew, ep, prior, sent, answered>>

\* on_callback up to its auto-advance: the answer to the question of the
\* session row is logged and counted
\* (variant: the global row is written anew by every answer)
GlobalUpsertReplace(g, p, w, k) ==
    [g EXCEPT ![p] = [attempts |-> 1, wrong |-> w, correct |-> k]]

\* _update_picture_answer_aggregates: the upsert of global_picture_state
GlobalUpsert(g, p, w, k) ==
    [g EXCEPT ![p] = [attempts |-> @.attempts + 1, wrong |-> @.wrong + w,
                      correct |-> @.correct + k]]

\* _update_picture_answer_aggregates: the insert or update of the user's row
UserUpsert(st, u, p, w, k) ==
    [st EXCEPT ![u][p] = [@ EXCEPT !.attempts = @ + 1, !.wrong = @ + w,
                                   !.correct = @ + k]]

\* (variant: the answer is recorded under the stored id, without the
\* reverse lookup)
ResolvedPidStored(q, n) == q.q_picture_id

\* on_callback: resolved_pid of the sessions row q
ResolvedPid(q, n) == ResolvePictureId(q.q_picture_id, q.q_title, q.q_image_url, n)

Answer(u, chosen) ==
    /\ up
    /\ pc[u] = "idle"
    /\ hasButton[u]
    /\ session[u].row
    /\ LET q == session[u]
           resolved_pid == ResolvedPid(q, catalogSize)
           is_correct == (chosen = q.q_museum)
           w == IF is_correct THEN 0 ELSE 1
           k == IF is_correct THEN 1 ELSE 0
       IN  /\ log' = Append(log, [user_id |-> u, picture_id |-> resolved_pid,
                                  title |-> q.q_title, image_url |-> q.q_image_url,
                                  is_correct |-> is_correct])
           /\ IF resolved_pid # NoPid
              THEN /\ gps' = GlobalUpsert(gps, resolved_pid, w, k)
                   /\ ups' = UserUpsert(ups, u, resolved_pid, w, k)
              ELSE UNCHANGED <<gps, ups, prior, sent>>
    /\ pc' = [pc EXCEPT ![u] = "start"]
    /\ answered' = [answered EXCEPT ![u] = TRUE]
    /\ UNCHANGED <<up, catalogSize, now, secret, cfg, backlog, plan, cursor, cycle, quota,
                   session, backfillDone, statsQueue, attempt, cand, hasButton,
                   retNew, failMsgs, playHist, ep, prior, sent>>

\* ------------------------ ensure_global_daily_plan, statement by statement
\* the first SELECT: an existing plan is returned as it is
EpCall(c) ==
    /\ up
    /\ ep[c].pc \in {"idle", "done"}
    /\ LET d == TodayKey(now)
       IN  ep' = [ep EXCEPT ![c] =
                     IF plan[d] # <<>>
                     THEN [NoCall EXCEPT !.pc = "done", !.day_key = d,
                                         !.returned = plan[d]]
                     ELSE [NoCall EXCEPT !.pc = "ready", !.day_key = d]]
    /\ UNCHANGED <<up, catalogSize, now, secret, cfg, backlog, plan, cursor, cycle, ups, gps,
                   quota, session, log, backfillDone, statsQueue, pc, attempt,
                   cand, hasButton, retNew, failMsgs, playHist, prior, sent, answered>>

\* _is_global_ready
EpReady(c) ==
    /\ ep[c].pc = "ready"
    /\ ep' = [ep EXCEPT ![c].pc = "top", ![c].global_ready = IsGlobalReady(gps)]
    /\ UNCHANGED <<up, catalogSize, now, secret, cfg, backlog, plan, cursor, cycle, ups, gps,
                   quota, session, log, backfillDone, statsQueue, pc, attempt,
                   cand, hasButton, retNew, failMsgs, playHist, prior, sent, answered>>

\* _get_global_top_mistakes (when ready) and the assembly of the slots
EpTop(c) ==
    /\ ep[c].pc = "top"
    /\ \E top \in IF ep[c].global_ready
                   THEN GetGlobalTopMistakes(gps, catalogSize) ELSE {<<>>} :
          ep' = [ep EXCEPT ![c].pc = "insert",
                           ![c].items =
                               AssemblePlan(secret, ep[c].day_key, catalogSize,
                                            ep[c].global_ready, top)]
    /\ UNCHANGED <<up, catalogSize, now, secret, cfg, backlog, plan, cursor, cycle, ups, gps,
                   quota, session, log, backfillDone, statsQueue, pc, attempt,
                   cand, hasButton, retNew, failMsgs, playHist, prior, sent, answered>>

\* the race-safe create
EpInsert(c) ==
    /\ ep[c].pc = "insert"
    /\ plan' = PlanInsertOrIgnore(plan, ep[c].day_key, ep[c].items)
    /\ ep' = [ep EXCEPT ![c].pc = "reread"]
    /\ UNCHANGED <<up, catalogSize, now, secret, cfg, backlog, cursor, cycle, ups, gps,
                   quota, session, log, backfillDone, statsQueue, pc, attempt,
                   cand, hasButton, retNew, failMsgs, playHist, prior, sent, answered>>

\* the final SELECT, whose row is returned
EpReread(c) ==
    /\ ep[c].pc = "reread"
    /\ ep' = [ep EXCEPT ![c].pc = "done", ![c].returned = plan[ep[c].day_key]]
    /\ UNCHANGED <<up, catalogSize, now, secret, cfg, backlog, plan, cursor, cycle, ups, gps,
                   quota, session, log, backfillDone, statsQueue, pc, attempt,
                   cand, hasButton, retNew, failMsgs, playHist, prior, sent, answered>>

\* _update_picture_answer_aggregates(u, p, is_correct) and the log row of
\* on_callback, for an answer of user u to a question on picture p
RecordAnswer(u, p, is_correct) ==
    /\ up
    /\ InCatalog(p, catalogSize)
    /\ LET w == IF is_correct THEN 0 ELSE 1
           k == IF is_correct THEN 1 ELSE 0
       IN  /\ log' = Append(log, [user_id |-> u, picture_id |-> p,
                                  title |-> TitleOf(p), image_url |-> UrlOf(p),
                                  is_correct |-> is_correct])
           /\ gps' = GlobalUpsert(gps, p, w, k)
           /\ ups' = UserUpsert(ups, u, p, w, k)
    /\ UNCHANGED <<up, catalogSize, now, secret, cfg, backlog, plan, cursor, cycle, quota,
                   session, backfillDone, statsQueue, pc, attempt, cand,
                   hasButton, retNew, failMsgs, playHist, ep, prior, sent, answered>>

\* the steps of user u
UserStep(u) ==
    \/ Play(u)
    \/ Peek(u)
    \/ DeliverOk(u)
    \/ DeliverFail(u)
    \/ \E chosen \in Museums : Len(log) < MaxLog /\ Answer(u, chosen)

\* one user, over several days, restarts and catalog growth
Next ==
    \/ \E n \in InitCatalog..MaxCatalog : Main(n)
    \/ Tick
    \/ UserStep(1)

Spec == Init /\ [][Next]_vars

\* all users, on the first day, with a fresh database; the commit
\* transaction may fail
InitDuo == Init /\ log = <<>>

TickDuo == now < DuoMaxNow /\ Tick

NextDuo ==
    \/ \E n \in InitCatalog..MaxCatalog : Main(n)
    \/ TickDuo
    \/ \E u \in Users : UserStep(u)
    \/ \E u \in Users : CommitFail(u)

SpecDuo == InitDuo /\ [][NextDuo]_vars

\* callers racing through ensure_global_daily_plan on a fresh database
\* while answers to earlier questions change the global statistics
NextPlan ==
    \/ \E n \in InitCatalog..MaxCatalog : Main(n)
    \/ Tick
    \/ \E c \in Users : EpCall(c)
    \/ \E c \in Users : EpReady(c)
    \/ \E c \in Users : EpTop(c)
    \/ \E c \in Users : EpInsert(c)
    \/ \E c \in Users : EpReread(c)
    \/ \E p \in Items, ok \in BOOLEAN : Len(log) < MaxLog /\ RecordAnswer(1, p, ok)

SpecPlan == InitDuo /\ [][NextPlan]_vars

\* ------------------------------------------- the plan generator by itself
\* one caller creates the plans of the days while answers build up the
\* global statistics, on a fresh database
NextGen ==
    \/ \E n \in InitCatalog..MaxCatalog : Main(n)
    \/ TickDuo
    \/ EpCall(1)
    \/ EpReady(1)
    \/ EpTop(1)
    \/ EpInsert(1)
    \/ EpReread(1)
    \/ \E p \in Items, ok \in BOOLEAN : Len(log) < GenMaxLog /\ RecordAnswer(1, p, ok)

SpecGen == InitDuo /\ [][NextGen]_vars

\* the generator under several settings of the interleave period and of the
\* prefix length
GenConfigs ==
    {[BaseConfig EXCEPT !.REVIEW_EVERY = e, !.REVIEW_PREFIX_SLOTS = f] :
        e \in {0, 2, 3}, f \in {0, 1}}

InitShapes == cfg \in GenConfigs /\ InitDb /\ log = <<>>

SpecShapes == InitShapes /\ [][NextGen]_vars

\* ------------------------------------------------ the five-item scenario
\* five items, a REVIEW slot after every two NEW slots, no prefix, the
\* default thresholds of the user's own mistakes list, and global readiness
\* out of reach
FiveConfig ==
    [DAILY_LIMIT |-> 10, REVIEW_EVERY |-> 3, REVIEW_PREFIX_SLOTS |-> 0,
     GLOBAL_READY_MIN_TOTAL_ATTEMPTS |-> 200, USER_MIN_ATTEMPTS_PER_PICTURE |-> 2]

InitFive == cfg = FiveConfig /\ InitDb /\ log = <<>>

\* the user answers the question on the screen, which has no answer yet
AnswerOnce(u, chosen) ==
    /\ session[u].q_picture_id # NoPid
    /\ ups[u][session[u].q_picture_id].attempts = 0
    /\ Answer(u, chosen)

\* a fresh user, every delivery succeeds, every question is answered at
\* most once, rightly or wrongly
NextFive ==
    \/ Main(FiveCatalog)
    \/ Tick
    \/ Play(1)
    \/ Peek(1)
    \/ DeliverOk(1)
    \/ \E chosen \in Museums : AnswerOnce(1, chosen)

SpecFive == InitFive /\ [][NextFive]_vars

\* ------------------------------------- a question served by an older version
\* sessions rows an older version of the bot, which stored no picture id and
\* no pending slot, has left: the title and url of item 1; the title that
\* items 1 and 2 share, without a url; the title of item 3, without a url
LegacySession(p, form, urlKnown) ==
    [NoSession EXCEPT !.row = TRUE,
                      !.q_title = <<(p + 1) \div 2, form>>,
                      !.q_museum = MuseumOf(p),
                      !.q_image_url = IF urlKnown THEN UrlOf(p) ELSE <<0, "canon">>]

LegacySessions ==
    {LegacySession(1, "raw", TRUE),
     LegacySession(1, "canon", FALSE),
     LegacySession(3, "raw", FALSE)}

\* the database after the older version: user 1 has a question on the
\* screen, with its buttons; the answer log is empty
InitLegacy ==
    /\ cfg = BaseConfig
    /\ up = FALSE
    /\ catalogSize = 0
    /\ now = 0
    /\ secret \in 0..MaxSecret
    /\ plan = [d \in Days |-> <<>>]
    /\ cursor = [u \in Users |-> [d \in Days |-> NoRow]]
    /\ cycle = [u \in Users |-> NoCycle]
    /\ ups = [u \in Users |-> [p \in Items |-> NoUps]]
    /\ gps = [p \in Items |-> ZeroStat]
    /\ quota = [u \in Users |-> [d \in Days |-> 0]]
    /\ \E q \in LegacySessions :
          session = [u \in Users |-> IF u = 1 THEN q ELSE NoSession]
    /\ log = <<>>
    /\ backfillDone = FALSE
    /\ statsQueue = [u \in Users |-> [d \in Days |-> "none"]]
    /\ pc = [u \in Users |-> "idle"]
    /\ attempt = [u \in Users |-> 0]
    /\ cand = [u \in Users |-> NoCand]
    /\ hasButton = [u \in Users |-> u = 1]
    /\ retNew = [u \in Users |-> [p \in Items |-> 0]]
    /\ failMsgs = [u \in Users |-> 0]
    /\ playHist = [u \in Users |-> NoHist]
    /\ prior = NoPrior
    /\ sent = [u \in Users |-> [d \in Days |-> [sends |-> 0, fails |-> 0]]]
    /\ answered = [u \in Users |-> FALSE]
    /\ backlog = 0
    /\ ep = [u \in Users |-> NoCall]

NextLegacy ==
    \/ \E n \in InitCatalog..MaxCatalog : Main(n)
    \/ TickDuo
    \/ Play(1)
    \/ Peek(1)
    \/ DeliverOk(1)
    \/ \E chosen \in Museums : Len(log) < MaxLog /\ Answer(1, chosen)

SpecLegacy == InitLegacy /\ [][NextLegacy]_vars

\* ------------------------------------------ the sweep of deferred notices
\* the most summary messages and failed sends counted for one notice
MaxSends == 2

Min(a, b) == IF a < b THEN a ELSE b

\* the LIMIT of the sweep's query
STATS_BATCH == 50

\* _tomorrow_9utc_epoch <= now: the notice of stats date d is due from the
\* start of the next day
StatsDue(d, now_ts) == now_ts >= (d + 1) * DayLen

\* the row of u and d can be among the rows the sweep's query returns: it is
\* unsent and due, and fewer than STATS_BATCH unsent rows have an earlier
\* send_at (rows of one stats date have the same send_at)
StatsSelected(u, d) ==
    /\ statsQueue[u][d] = "unsent"
    /\ StatsDue(d, now)
    /\ backlog + Cardinality({x \in Users \X Days :
                                 statsQueue[x[1]][x[2]] = "unsent" /\ x[2] < d})
          < STATS_BATCH

\* (variant: the row is left as it is after the send)
MarkSentNever(q, u, d) == q

\* UPDATE stats_queue SET sent_at=? WHERE id=?
MarkSent(q, u, d) == [q EXCEPT ![u][d] = "sent"]

\* _send_due_stats_job reaches the row of user u and date d: send_message
\* returns and the row is marked, or it raises and the row is kept
StatsSend(u, d, ok) ==
    /\ up
    /\ StatsSelected(u, d)
    /\ IF ok
       THEN /\ sent' = [sent EXCEPT ![u][d].sends = Min(@ + 1, MaxSends)]
            /\ statsQueue' = MarkSent(statsQueue, u, d)
       ELSE /\ sent' = [sent EXCEPT ![u][d].fails = Min(@ + 1, MaxSends)]
            /\ UNCHANGED statsQueue
    /\ UNCHANGED <<up, catalogSize, now, secret, cfg, backlog, plan, cursor, cycle, ups,
                   gps, quota, session, log, backfillDone, pc, attempt, cand,
                   hasButton, retNew, failMsgs, playHist, prior, answered, ep>>

\* one user plays, the clock runs, the sweep sends the due notices
NextStats ==
    \/ \E n \in InitCatalog..MaxCatalog : Main(n)
    \/ Tick
    \/ Play(1)
    \/ Peek(1)
    \/ DeliverOk(1)
    \/ \E u \in Users, d \in Days, ok \in BOOLEAN : StatsSend(u, d, ok)

\* the job queue runs the sweep every minute while the process is up
SpecStats ==
    /\ Init
    /\ [][NextStats]_vars
    /\ \A u \in Users, d \in Days :
          WF_vars(\E ok \in BOOLEAN : StatsSend(u, d, ok))

\* ------------------------- the sweep behind a backlog of failing notices
\* a fresh database but for stats_queue, which holds the notices of earlier
\* days of recipients that can no longer be reached (one below the LIMIT of
\* the sweep's query, or as many as the LIMIT); every send to them raises, so
\* the rows stay unsent
InitSweep ==
    /\ cfg = BaseConfig
    /\ up = FALSE
    /\ catalogSize = 0
    /\ now = 0
    /\ secret \in 0..MaxSecret
    /\ plan = [d \in Days |-> <<>>]
    /\ cursor = [u \in Users |-> [d \in Days |-> NoRow]]
    /\ cycle = [u \in Users |-> NoCycle]
    /\ ups = [u \in Users |-> [p \in Items |-> NoUps]]
    /\ gps = [p \in Items |-> ZeroStat]
    /\ quota = [u \in Users |-> [d \in Days |-> 0]]
    /\ session = [u \in Users |-> NoSession]
    /\ log = <<>>
    /\ backfillDone = FALSE
    /\ statsQueue = [u \in Users |-> [d \in Days |-> "none"]]
    /\ pc = [u \in Users |-> "idle"]
    /\ attempt = [u \in Users |-> 0]
    /\ cand = [u \in Users |-> NoCand]
    /\ hasButton = [u \in Users |-> FALSE]
    /\ retNew = [u \in Users |-> [p \in Items |-> 0]]
    /\ failMsgs = [u \in Users |-> 0]
    /\ playHist = [u \in Users |-> NoHist]
    /\ prior = NoPrior
    /\ sent = [u \in Users |-> [d \in Days |-> [sends |-> 0, fails |-> 0]]]
    /\ answered = [u \in Users |-> FALSE]
    /\ backlog \in {STATS_BATCH - 1, STATS_BATCH}
    /\ ep = [u \in Users |-> NoCall]

\* user 1 can be reached: a send to user 1 that the sweep keeps attempting
\* succeeds in the end
SpecSweep ==
    /\ InitSweep
    /\ [][NextStats]_vars
    /\ \A d \in Days : WF_vars(StatsSend(1, d, TRUE))

\* ------------------------------- the first start over an older database
\* painting_results rows of a deployment that stored picture ids
IdRow(u, p, ok) ==
    [user_id |-> u, picture_id |-> p, title |-> TitleOf(p),
     image_url |-> UrlOf(p), is_correct |-> ok]

\* the rows found in the log: rows with ids, a legacy row that the lookup
\* resolves, one it cannot resolve while items 1 and 2 share a title, and
\* one it resolves only once item 3 is in the catalog
LogRows ==
    {IdRow(1, 1, FALSE), IdRow(MaxUsers, 1, TRUE), IdRow(1, 2, FALSE),
     LegacyRow(1, 1, "raw", TRUE, TRUE), LegacyRow(1, 1, "canon", FALSE, FALSE),
     LegacyRow(1, 3, "raw", FALSE, TRUE)}

SeqsUpTo(S, k) == UNION {[1..m -> S] : m \in 0..k}

\* the counters an earlier deployment has kept for the rows S of the log l,
\* which it recorded with their ids
CountedRows(l, S, u, p) ==
    LET rows == {i \in S : l[i].picture_id = p /\ (u = 0 \/ l[i].user_id = u)}
    IN  [attempts |-> Cardinality(rows),
         wrong |-> Cardinality({i \in rows : ~l[i].is_correct}),
         correct |-> Cardinality({i \in rows : l[i].is_correct})]

\* the database before the first start of this version: a log, and aggregate
\* tables that hold the counts of none, some or all of its rows with ids
InitBackfill ==
    /\ cfg = BaseConfig
    /\ up = FALSE
    /\ catalogSize = 0
    /\ now = 0
    /\ secret \in 0..MaxSecret
    /\ plan = [d \in Days |-> <<>>]
    /\ cursor = [u \in Users |-> [d \in Days |-> NoRow]]
    /\ cycle = [u \in Users |-> NoCycle]
    /\ log \in SeqsUpTo(LogRows, BackfillMaxLog)
    /\ \E S \in SUBSET {i \in 1..Len(log) : log[i].picture_id # NoPid} :
          /\ gps = [p \in Items |-> CountedRows(log, S, 0, p)]
          /\ ups = [u \in Users |-> [p \in Items |->
                       [last_seen_cycle_id |-> 0,
                        attempts |-> CountedRows(log, S, u, p).attempts,
                        wrong |-> CountedRows(log, S, u, p).wrong,
                        correct |-> CountedRows(log, S, u, p).correct]]]
    /\ quota = [u \in Users |-> [d \in Days |-> 0]]
    /\ session = [u \in Users |-> NoSession]
    /\ backfillDone = FALSE
    /\ statsQueue = [u \in Users |-> [d \in Days |-> "none"]]
    /\ pc = [u \in Users |-> "idle"]
    /\ attempt = [u \in Users |-> 0]
    /\ cand = [u \in Users |-> NoCand]
    /\ hasButton = [u \in Users |-> FALSE]
    /\ retNew = [u \in Users |-> [p \in Items |-> 0]]
    /\ failMsgs = [u \in Users |-> 0]
    /\ playHist = [u \in Users |-> NoHist]
    /\ prior = NoPrior
    /\ sent = [u \in Users |-> [d \in Days |-> [sends |-> 0, fails |-> 0]]]
    /\ answered = [u \in Users |-> FALSE]
    /\ backlog = 0
    /\ ep = [u \in Users |-> NoCall]

\* main() loads a catalog of n records and the backfill raises before its
\* transaction commits: the transaction is rolled back and the process ends
MainFail(n) ==
    /\ ~up
    /\ ~backfillDone
    /\ n # catalogSize
    /\ catalogSize' = n
    /\ UNCHANGED <<up, now, secret, cfg, backlog, plan, cursor, cycle, ups, gps, quota,
                   session, log, backfillDone, statsQueue, pc, attempt, cand,
                   hasButton, retNew, failMsgs, playHist, ep, prior, sent, answered>>

\* the process starts, fails to start, restarts with a larger catalog, and
\* records answers in between
NextBackfill ==
    \/ \E n \in InitCatalog..MaxCatalog : Main(n)
    \/ \E n \in InitCatalog..MaxCatalog : MainFail(n)
    \/ \E p \in Items, ok \in BOOLEAN :
          Len(log) < BackfillMaxLog /\ RecordAnswer(1, p, ok)

SpecBackfill == InitBackfill /\ [][NextBackfill]_vars

\* ------------------- the first start over a database with cycle tables
\* the database an earlier deployment has left without the backfill flag:
\* user 1 is in cycle c of a catalog of InitCatalog items, has been shown the
\* items M in that cycle and has answered at most one of them; the counters and
\* seen_count are the ones the handlers keep for that history
InitUpgrade ==
    /\ cfg = BaseConfig
    /\ up = FALSE
    /\ catalogSize = 0
    /\ now = 0
    /\ secret \in 0..MaxSecret
    /\ plan = [d \in Days |-> <<>>]
    /\ cursor = [u \in Users |-> [d \in Days |-> NoRow]]
    /\ log \in SeqsUpTo({IdRow(1, p, FALSE) : p \in 1..InitCatalog}, 1)
    /\ \E c \in 1..2 : \E M \in SUBSET (1..InitCatalog) :
          /\ M # {}
          /\ \A i \in 1..Len(log) : log[i].picture_id \in M
          /\ cycle = [u \in Users |->
                IF u = 1
                THEN [cycle_id |-> c,
                      completed_at |-> IF Cardinality(M) >= InitCatalog
                                       THEN 0 ELSE NoTs,
                      snapshot |-> InitCatalog,
                      seen_count |-> Cardinality(M)]
                ELSE NoCycle]
          /\ ups = [u \in Users |-> [p \in Items |->
                [last_seen_cycle_id |-> IF u = 1 /\ p \in M THEN c ELSE 0,
                 attempts |-> CountedRows(log, 1..Len(log), u, p).attempts,
                 wrong |-> CountedRows(log, 1..Len(log), u, p).wrong,
                 correct |-> CountedRows(log, 1..Len(log), u, p).correct]]]
    /\ gps = [p \in Items |-> CountedRows(log, 1..Len(log), 0, p)]
    /\ quota = [u \in Users |-> [d \in Days |-> 0]]
    /\ session = [u \in Users |-> NoSession]
    /\ backfillDone = FALSE
    /\ statsQueue = [u \in Users |-> [d \in Days |-> "none"]]
    /\ pc = [u \in Users |-> "idle"]
    /\ attempt = [u \in Users |-> 0]
    /\ cand = [u \in Users |-> NoCand]
    /\ hasButton = [u \in Users |-> FALSE]
    /\ retNew = [u \in Users |-> [p \in Items |-> 0]]
    /\ failMsgs = [u \in Users |-> 0]
    /\ playHist = [u \in Users |-> NoHist]
    /\ prior = NoPrior
    /\ sent = [u \in Users |-> [d \in Days |-> [sends |-> 0, fails |-> 0]]]
    /\ answered = [u \in Users |-> FALSE]
    /\ backlog = 0
    /\ ep = [u \in Users |-> NoCall]

\* the process starts over that database and user 1 plays on, within the
\* first days
NextUpgrade ==
    \/ \E n \in InitCatalog..MaxCatalog : Main(n)
    \/ TickDuo
    \/ UserStep(1)

SpecUpgrade == InitUpgrade /\ [][NextUpgrade]_vars

\* ------------------------------------------------ a user who plays forever
\* a deployment whose plan opens with as many REVIEW slots as the daily
\* limit allows deliveries
StarveConfig ==
    [BaseConfig EXCEPT !.DAILY_LIMIT = 1, !.REVIEW_PREFIX_SLOTS = 1]

InitLive == cfg = StarveConfig /\ InitDb /\ log = <<>>

LastDay == MaxNow \div DayLen

\* the per-day rows f seen one day later: the row of day d+1 is under d and
\* the last day has the row none
ShiftDays(f, none) == [d \in Days |-> IF d + 1 \in Days THEN f[d + 1] ELSE none]

ShiftDayKey(d) == IF d > 0 THEN d - 1 ELSE NoRow

\* a timestamp seen one day later (NULL stays NULL, the oldest saturate)
ShiftTs(t) == IF t = NoTs THEN NoTs ELSE Max(0, t - DayLen)

\* midnight after the last day the clock can show: the days are renumbered
\* so that the new day is the last one again.  No row of the dropped first
\* day is ever read again: every read is keyed by _today_key().  The new
\* day has no plan, no cursor and no quota row yet.
NewDay ==
    /\ up
    /\ AllIdle
    /\ now = MaxNow
    /\ LastDay > 0
    /\ now' = LastDay * DayLen
    /\ plan' = ShiftDays(plan, <<>>)
    /\ cursor' = [u \in Users |-> ShiftDays(cursor[u], NoRow)]
    /\ quota' = [u \in Users |-> ShiftDays(quota[u], 0)]
    /\ statsQueue' = [u \in Users |-> ShiftDays(statsQueue[u], "none")]
    /\ cycle' = [u \in Users |-> [cycle[u] EXCEPT !.completed_at = ShiftTs(@)]]
    /\ session' = [u \in Users |->
                      [session[u] EXCEPT !.pending.day_key = ShiftDayKey(@)]]
    /\ ep' = [u \in Users |-> NoCall]
    /\ playHist' = [u \in Users |-> NoHist]
    /\ UNCHANGED <<cfg, backlog, up, catalogSize, secret, ups, gps, log, backfillDone, pc,
                   attempt, cand, hasButton, retNew, failMsgs, prior, answered>>
    /\ sent' = [u \in Users |-> ShiftDays(sent[u], [sends |-> 0, fails |-> 0])]

\* the first cycle of user 1 is not completed yet
Running == cycle[1].completed_at = NoTs

\* user 1 plays day after day, every delivery succeeds; the run is followed
\* until the first cycle completes
NextLive ==
    \/ \E n \in InitCatalog..MaxCatalog : Main(n)
    \/ Tick
    \/ NewDay
    \/ Running /\ Play(1)
    \/ Running /\ Peek(1)
    \/ Running /\ DeliverOk(1)
    \/ \E chosen \in Museums : Running /\ Len(log) < MaxLog /\ Answer(1, chosen)

\* the process starts, the clock runs, the user keeps sending /play and
\* every handler and delivery runs to its end
SpecLive ==
    /\ InitLive
    /\ [][NextLive]_vars
    /\ WF_vars(\E n \in InitCatalog..MaxCatalog : ~up /\ Main(n))
    /\ WF_vars(Tick)
    /\ SF_vars(NewDay)
    /\ SF_vars(Running /\ Play(1))
    /\ WF_vars(Running /\ Peek(1))
    /\ WF_vars(Running /\ DeliverOk(1))

\* ------------------------------------------------------------- properties

\* C1: every call of ensure_global_daily_plan that has returned for day D
\* returned the slot sequence stored for D, which exists, so all calls for D
\* returned the same sequence, whatever the interleaving of the callers and
\* of the answers that change the global statistics between their reads.
C1_EnsurePlanConverges ==
    \A c \in Users :
        ep[c].pc = "done" =>
            /\ plan[ep[c].day_key] # <<>>
            /\ ep[c].returned = plan[ep[c].day_key]
            /\ \A c2 \in Users :
                   (ep[c2].pc = "done" /\ ep[c2].day_key = ep[c].day_key)
                       => ep[c2].returned = ep[c].returned

\* two callers raced through the creation of the same day's plan with
\* different assembled slot lists, and both have returned
C1_Witness ==
    /\ ep[1].pc = "done" /\ ep[2].pc = "done"
    /\ ep[1].day_key = ep[2].day_key
    /\ ep[1].items # <<>> /\ ep[2].items # <<>>
    /\ ep[1].items # ep[2].items

\* C2 (as stated): within one cycle id, peek_next_candidate returns a NEW
\* candidate for an item at most once.
C2_NewReturnedOnce ==
    \A u \in Users : \A p \in Items : retNew[u][p] <= 1

\* C2 (amended): a NEW candidate is returned only for an item that is not
\* marked seen in the user's current cycle, and it carries that cycle's id.
C2_NewOnlyWhileUnseen ==
    \A u \in Users :
        (pc[u] = "sending" /\ cand[u].kind = "NEW") =>
            /\ cand[u].cycle_id = cycle[u].cycle_id
            /\ ups[u][cand[u].picture_id].last_seen_cycle_id # cycle[u].cycle_id

\* a NEW candidate for an item is out for the second time in the same cycle
C2_Witness ==
    \E u \in Users :
        /\ pc[u] = "sending" /\ cand[u].kind = "NEW"
        /\ retNew[u][cand[u].picture_id] = 2

\* C3: a REVIEW candidate names an item the user has at least one recorded
\* attempt on, whether the slot was bound by the plan or resolved from the
\* user's own mistakes.
C3_ReviewHasAttempts ==
    \A u \in Users :
        (pc[u] = "sending" /\ cand[u].kind = "REVIEW") =>
            ups[u][cand[u].picture_id].attempts > 0

\* a REVIEW candidate is out, after the scan has passed a REVIEW slot bound
\* to an item the user never attempted
C3_Witness ==
    \E u \in Users :
        /\ pc[u] = "sending" /\ cand[u].kind = "REVIEW"
        /\ \E i \in 1..cand[u].slot_index :
              LET slot == plan[cand[u].day_key][i]
              IN  /\ slot.kind = "REVIEW" /\ slot.picture_id # NoPid
                  /\ ups[u][slot.picture_id].attempts = 0

\* C4: seen_count never exceeds the snapshot, and a completed cycle has
\* seen_count equal to the snapshot.
C4_SeenWithinSnapshot ==
    \A u \in Users :
        /\ cycle[u].seen_count <= cycle[u].snapshot
        /\ cycle[u].completed_at # NoTs => cycle[u].seen_count = cycle[u].snapshot

\* a cycle that a delivery completed, with the catalog grown since
C4_Witness ==
    \E u \in Users :
        /\ cycle[u].completed_at # NoTs
        /\ hasButton[u]
        /\ catalogSize > cycle[u].snapshot

\* C5: a cycle whose seen_count equals its snapshot is marked completed.
C5_FullCycleCompleted ==
    \A u \in Users :
        (cycle[u].cycle_id # 0 /\ cycle[u].seen_count = cycle[u].snapshot)
            => cycle[u].completed_at # NoTs

\* the second cycle of a user has just been completed by deliveries
C5_Witness ==
    \E u \in Users :
        /\ cycle[u].cycle_id = 2
        /\ cycle[u].seen_count = cycle[u].snapshot
        /\ cycle[u].completed_at # NoTs

\* C6: a skip writes the cursor of candidate.dayKey and nothing else of the
\* user: quota, cycle state and seen marks are as before.
C6_SkipOnlyMovesCursor ==
    [][\A u \in Users :
          DeliverFail(u) =>
              /\ cursor'[u][cand[u].day_key] = cand[u].next_cursor
              /\ \A d \in Days \ {cand[u].day_key} : cursor'[u][d] = cursor[u][d]
              /\ quota' = quota
              /\ cycle' = cycle
              /\ ups' = ups]_vars

\* a slot has been skipped by a user who has quota and cycle progress
C6_Witness ==
    \E u \in Users :
        /\ pc[u] = "peek" /\ attempt[u] = 1
        /\ cycle[u].seen_count = 1
        /\ quota[u][TodayKey(now)] = 1

\* the four effects of commit_candidate for the candidate c of user u
CommitEffects(u, c) ==
    /\ cursor'[u][c.day_key] = c.next_cursor
    /\ ups'[u][c.picture_id].last_seen_cycle_id = c.cycle_id
    /\ quota'[u][TodayKey(now)] = quota[u][TodayKey(now)] + 1
    /\ session'[u].pending = NoPending

C8_CursorMonotonic ==
    [][\A u \in Users : \A d \in Days :
          CursorVal(cursor'[u][d]) >= CursorVal(cursor[u][d])]_vars

\* cursors have advanced on two days
C8_Witness ==
    \E u \in Users : cursor[u][0] >= 2 /\ cursor[u][1] >= 2

\* C9 (as stated): peek_next_candidate never changes the stored cursor.
C9_PeekKeepsCursor ==
    [][\A u \in Users :
          Peek(u) => \A d \in Days :
              CursorVal(cursor'[u][d]) = CursorVal(cursor[u][d])]_vars

\* C9 (amended): the stored cursor changes only in a commit, in a skip, or
\* in a peek that returns none; a peek that returns a candidate leaves it.
C9_CursorWriters ==
    [][\A u \in Users :
          /\ (\E d \in Days : CursorVal(cursor'[u][d]) # CursorVal(cursor[u][d]))
                => \/ DeliverOk(u)
                   \/ DeliverFail(u)
                   \/ Peek(u) /\ pc'[u] = "idle"
          /\ (Peek(u) /\ pc'[u] = "sending")
                => \A d \in Days :
                      CursorVal(cursor'[u][d]) = CursorVal(cursor[u][d])]_vars

\* a peek has returned none with quota left and stored the scan boundary at
\* the end of the plan
C9_Witness ==
    \E u \in Users :
        /\ pc[u] = "idle"
        /\ now < DayLen
        /\ quota[u][0] < DAILY_LIMIT
        /\ statsQueue[u][0] = "unsent"
        /\ plan[0] # <<>>
        /\ cursor[u][0] = Len(plan[0])

\* the fields C10 names, of the user's rows st
ReplayView(st) ==
    [cursor |-> st.cursor, quota |-> st.quota,
     seen_count |-> st.cycle.seen_count, completed_at |-> st.cycle.completed_at,
     seen |-> [p \in Items |-> st.ups[p].last_seen_cycle_id]]

\* C10: with a candidate about to be committed or skipped, doing the commit
\* (or the skip) a second time changes nothing that the first left.
C10_ReplayIsNoOp ==
    \A u \in Users :
        pc[u] = "sending" =>
            LET committed == CommitCandidate(UserState(u), cand[u], now)
                skipped == SkipCandidateSlot(UserState(u), cand[u])
            IN  /\ ReplayView(CommitCandidate(committed, cand[u], now))
                      = ReplayView(committed)
                /\ ReplayView(SkipCandidateSlot(skipped, cand[u]))
                      = ReplayView(skipped)

\* C11: a user who keeps playing on successive days and whose deliveries
\* all succeed eventually has the current cycle completed (seen_count at the
\* snapshot and completed_at set).
C11_CycleEventuallyCompletes ==
    <>(/\ cycle[1].cycle_id # 0
       /\ cycle[1].seen_count = cycle[1].snapshot
       /\ cycle[1].completed_at # NoTs)

\* the failure message of play has just been sent to user u
AllFailed(u) == pc[u] = "idle" /\ failMsgs[u] >= 1

\* what C12 says of the message, the quota and the cursor
FailedPlayKeeps(u) ==
    /\ failMsgs[u] = 1
    /\ Cardinality(playHist[u].failed) = PLAY_ATTEMPTS
    /\ quota[u] = playHist[u].quota
    /\ \A s \in playHist[u].failed : CursorOf(u, s.day_key) > s.slot_index

\* no skipped slot is out as a candidate again
NoSkippedSlotAgain(u) ==
    pc[u] = "sending" => SlotOf(cand[u]) \notin playHist[u].skipped

\* C12 (as stated): after a play whose three deliveries all failed the user
\* has one failure message, the quota and seen_count the play began with,
\* and a cursor beyond every failed slot; no skipped slot is offered again.
C12_FailedPlayChangesNothing ==
    \A u \in Users :
        /\ NoSkippedSlotAgain(u)
        /\ AllFailed(u) =>
              /\ FailedPlayKeeps(u)
              /\ cycle[u].seen_count = playHist[u].cycle.seen_count

\* C12 (amended): the same, except that seen_count is the one the play began
\* with only if no peek of the play started a new cycle; if one did,
\* seen_count is 0, the count of the new cycle.
C12_FailedPlayCountsNothing ==
    \A u \in Users :
        /\ NoSkippedSlotAgain(u)
        /\ AllFailed(u) =>
              /\ FailedPlayKeeps(u)
              /\ cycle[u].seen_count =
                    IF cycle[u].cycle_id = playHist[u].cycle.cycle_id
                    THEN playHist[u].cycle.seen_count ELSE 0

\* the three deliveries of one play have just failed, for a user who had
\* items seen and quota used when the play began
C12_Witness ==
    \E u \in Users :
        /\ AllFailed(u)
        /\ Cardinality(playHist[u].failed) = PLAY_ATTEMPTS
        /\ playHist[u].cycle.seen_count >= 1
        /\ \E d \in Days : playHist[u].quota[d] >= 1

\* a NEW slot that peek_next_candidate accepts for user u in cycle cid
UnseenNew(slot, u, cid) ==
    /\ slot.kind = "NEW"
    /\ InCatalog(slot.picture_id, catalogSize)
    /\ ups[u][slot.picture_id].last_seen_cycle_id # cid

\* C13: a peek of a user whose cycle is completed and whose snapshot is below
\* the live catalog size clears completed_at and raises the snapshot to the
\* live size, keeping cycle_id and seen_count, whether the cooldown has
\* elapsed or not; in its scan every NEW slot of an item seen in the cycle
\* is passed over and the first NEW slot of an unseen (added) item is taken.
C13_GrowthReopensCycle ==
    [][\A u \in Users :
          (/\ Peek(u)
           /\ cycle[u].completed_at # NoTs
           /\ catalogSize > cycle[u].snapshot)
          => /\ cycle'[u] = [cycle[u] EXCEPT !.completed_at = NoTs,
                                              !.snapshot = catalogSize]
             /\ LET d == TodayKey(now)
                    from == CursorOf(u, d)
                    upto == IF pc'[u] = "sending" THEN cand'[u].slot_index
                            ELSE cursor'[u][d]
                IN  /\ \A k \in from..(upto - 1) :
                          ~UnseenNew(plan'[d][k + 1], u, cycle[u].cycle_id)
                    /\ (pc'[u] = "sending" /\ cand'[u].kind = "NEW")
                          => /\ UnseenNew(plan'[d][upto + 1], u, cycle[u].cycle_id)
                             /\ cand'[u].picture_id > cycle[u].snapshot
                             /\ cand'[u].cycle_id = cycle[u].cycle_id]_vars

\* the first peek of a play that began with a completed cycle, a smaller
\* snapshot than the catalog and the cooldown elapsed has returned a NEW
\* candidate for an added item, in the same cycle
C13_Witness ==
    \E u \in Users :
        /\ pc[u] = "sending" /\ attempt[u] = 0
        /\ playHist[u].cycle.completed_at # NoTs
        /\ now - playHist[u].cycle.completed_at >= CYCLE_COOLDOWN_SECONDS
        /\ playHist[u].cycle.snapshot < catalogSize
        /\ cand[u].kind = "NEW"
        /\ cand[u].picture_id > playHist[u].cycle.snapshot
        /\ cycle[u].cycle_id = playHist[u].cycle.cycle_id
        /\ cycle[u].completed_at = NoTs

\* the positions of the REVIEW slots of a plan
ReviewSlots(pl) == {i \in 1..Len(pl) : pl[i].kind = "REVIEW"}

\* the first REVIEW slot of pl bound to item p (0: none)
FirstReview(pl, p) ==
    LET at == {i \in ReviewSlots(pl) : pl[i].picture_id = p}
    IN  IF at = {} THEN 0 ELSE CHOOSE i \in at : \A j \in at : i <= j

\* item a has a higher wrong/attempts ratio than item b, which has mistakes
\* too but fewer
WorseThan(g, a, b) ==
    /\ g[a].wrong * g[b].attempts > g[b].wrong * g[a].attempts
    /\ g[b].wrong > 0 /\ g[b].wrong < g[a].wrong

\* C14 (as stated): in a plan created when the readiness thresholds are met,
\* an item with a higher wrong/attempts ratio is bound to a REVIEW slot
\* before the first REVIEW slot bound to an item with fewer wrong attempts.
C14_ReviewFollowsRanking ==
    (up /\ IsGlobalReady(gps)) =>
        \A d \in Days : \A pl \in BuildPlans(secret, d, catalogSize, gps) :
            \A a, b \in 1..catalogSize :
                (WorseThan(gps, a, b) /\ FirstReview(pl, b) # 0)
                    => /\ FirstReview(pl, a) # 0
                       /\ FirstReview(pl, a) < FirstReview(pl, b)

\* the items of a list
Range(s) == {s[i] : i \in 1..Len(s)}

\* C14 (amended): in a plan created when the readiness thresholds are met,
\* the REVIEW slots are bound to exactly the items of the ranked top-mistakes
\* list (items with enough attempts and at least one wrong answer, best
\* ranked first, cut to the limit), in the order of a seeded permutation of
\* that list, not in ranking order; with no such item they stay unbound.
C14_ReviewBoundToTopMistakes ==
    (up /\ IsGlobalReady(gps)) =>
        \A d \in Days : \A pl \in BuildPlans(secret, d, catalogSize, gps) :
            \E top \in GetGlobalTopMistakes(gps, catalogSize) :
                {pl[i].picture_id : i \in ReviewSlots(pl)}
                    = IF top = <<>> THEN {NoPid} ELSE Range(top)

\* a stored plan, created from the statistics as they are, whose first REVIEW
\* slot is bound to the item with the lower ratio and fewer wrong answers
C14_Witness ==
    \E d \in Days : \E a, b \in 1..catalogSize :
        /\ IsGlobalReady(gps)
        /\ ep[1].pc = "done" /\ ep[1].day_key = d /\ ep[1].global_ready
        /\ plan[d] \in BuildPlans(secret, d, catalogSize, gps)
        /\ WorseThan(gps, a, b)
        /\ FirstReview(plan[d], b) # 0
        /\ FirstReview(plan[d], b) < FirstReview(plan[d], a)

\* the kinds of the slots of a plan
KindsOf(pl) == [i \in 1..Len(pl) |-> pl[i].kind]

\* the number of items with a NEW candidate returned to u in this cycle
RECURSIVE SumRet(_, _)
SumRet(u, S) ==
    IF S = {} THEN 0
    ELSE LET p == CHOOSE q \in S : TRUE
         IN  retNew[u][p] + SumRet(u, S \ {p})

\* C15: in the five-item deployment every plan is NEW, NEW, REVIEW, NEW, NEW,
\* REVIEW, NEW and the tail, with every REVIEW slot unbound; during cycle 1
\* the fresh user is never handed a REVIEW candidate and is handed each item
\* as NEW at most once; seen_count is the number of NEW deliveries, and the
\* cycle is completed exactly when all five items have been delivered as NEW.
C15_FiveNewThenComplete ==
    /\ \A d \in Days :
          plan[d] # <<>> =>
              /\ KindsOf(plan[d]) = <<"NEW", "NEW", "REVIEW", "NEW", "NEW",
                                      "REVIEW", "NEW", "REVIEW">>
              /\ \A i \in ReviewSlots(plan[d]) : plan[d][i].picture_id = NoPid
    /\ cycle[1].cycle_id = 1 =>
          /\ pc[1] = "sending" => cand[1].kind = "NEW"
          /\ \A p \in Items : retNew[1][p] <= 1
          /\ cycle[1].seen_count
                = SumRet(1, Items) - (IF pc[1] = "sending" THEN 1 ELSE 0)
          /\ cycle[1].completed_at # NoTs <=> cycle[1].seen_count = FiveCatalog
          /\ cycle[1].completed_at # NoTs
                => \A p \in 1..FiveCatalog : retNew[1][p] = 1

\* cycle 1 is completed with seen_count 5; the user has answered some
\* questions wrongly, and the cursor has passed the unbound REVIEW slots
C15_Witness ==
    /\ cycle[1].cycle_id = 1
    /\ cycle[1].completed_at # NoTs
    /\ cycle[1].seen_count = FiveCatalog
    /\ \E p \in Items : ups[1][p].wrong > 0
    /\ \E d \in Days : cursor[1][d] >= 7

\* C16: the cycle_id of a user's row never decreases; it changes only in a
\* peek of that user, by exactly 1, when completed_at is set and the
\* cooldown has elapsed, and that step leaves seen_count 0, completed_at
\* NULL and the snapshot at the live catalog size.  A user without a row gets
\* a row with cycle_id 1 from a peek or from the backfill.  Commit, skip,
\* answers and restarts with a larger catalog leave cycle_id alone.
C16_CycleIdAdvance ==
    [][\A u \in Users :
          /\ cycle'[u].cycle_id >= cycle[u].cycle_id
          /\ (cycle[u].cycle_id # 0 /\ cycle'[u].cycle_id # cycle[u].cycle_id)
                => /\ Peek(u)
                   /\ cycle'[u].cycle_id = cycle[u].cycle_id + 1
                   /\ cycle[u].completed_at # NoTs
                   /\ now - cycle[u].completed_at >= CYCLE_COOLDOWN_SECONDS
                   /\ cycle'[u] = [cycle_id |-> cycle[u].cycle_id + 1,
                                   completed_at |-> NoTs,
                                   snapshot |-> catalogSize, seen_count |-> 0]
          /\ (cycle[u].cycle_id = 0 /\ cycle'[u].cycle_id # 0)
                => /\ cycle'[u].cycle_id = 1
                   /\ Peek(u) \/ ~backfillDone]_vars

\* a peek has started the second cycle of a user who has restarted with a
\* larger catalog, answered, and had deliveries committed and skipped
C16_Witness ==
    \E u \in Users :
        /\ cycle[u].cycle_id = 2
        /\ cycle[u].seen_count = 0
        /\ cycle[u].completed_at = NoTs
        /\ cycle[u].snapshot = catalogSize
        /\ catalogSize > InitCatalog
        /\ playHist[u].skipped # {}
        /\ hasButton[u]
        /\ \E p \in Items : ups[u][p].attempts > 0

\* C17: the slot sequence stored for a day is never changed by any step:
\* peeks (which call ensure_global_daily_plan), commits, skips, answers that
\* change the global statistics, restarts with a larger catalog.
C17_PlanImmutable ==
    [][\A d \in Days : plan[d] # <<>> => plan'[d] = plan[d]]_vars

\* a plan is stored and was ensured again by a second peek after the global
\* statistics changed so that the generator would now assemble another sequence
C17_Witness ==
    \E d \in Days :
        /\ plan[d] # <<>>
        /\ d = TodayKey(now)
        /\ plan[d] \notin BuildPlans(secret, d, catalogSize, gps)
        /\ \E p \in Items : gps[p].wrong > 0
        /\ pc[1] = "sending" /\ cand[1].day_key = d /\ cand[1].slot_index > 0

\* C18: two runs of the plan generator for the same day key, secret, catalog
\* and global statistics assemble the same slot sequence, also when items
\* tie on both wrong/attempts and attempts: in every state, for every day,
\* all sequences the generator can assemble are equal.
C18_GeneratorDeterministic ==
    \A d \in Days :
        \A a, b \in BuildPlans(secret, d, catalogSize, gps) : a = b

\* the seen marks of a user: the cycle in which each item was last delivered
SeenMarks(u) == [p \in Items |-> ups[u][p].last_seen_cycle_id]

\* C19: while a user's delivered count for the current day has reached
\* DAILY_LIMIT, a play request (and any other step) starts no peek and
\* delivers nothing: the request ends, and the user's cursor, cycle state,
\* seen marks, quota and served question are unchanged; and the delivered
\* count of a user for one day never exceeds DAILY_LIMIT.
C19_QuotaStopsPlay ==
    /\ [](\A u \in Users : \A d \in Days : quota[u][d] <= DAILY_LIMIT)
    /\ [][\A u \in Users :
            (pc[u] \in {"idle", "start"}
                /\ quota[u][TodayKey(now)] >= DAILY_LIMIT)
            => /\ pc'[u] \in {"idle", "start"}
               /\ cursor'[u] = cursor[u]
               /\ cycle'[u] = cycle[u]
               /\ SeenMarks(u)' = SeenMarks(u)
               /\ quota'[u] = quota[u]
               /\ cand'[u] = cand[u]
               /\ session'[u] = session[u]
               /\ hasButton'[u] = hasButton[u]]_vars

\* a play request has just been refused: it started with the day's count at
\* DAILY_LIMIT, the user is idle again, and the day's plan is only partly used
C19_Witness ==
    \E u \in Users :
        /\ pc[u] = "idle"
        /\ playHist[u].quota[TodayKey(now)] = DAILY_LIMIT
        /\ quota[u][TodayKey(now)] = DAILY_LIMIT
        /\ statsQueue[u][TodayKey(now)] # "none"
        /\ cursor[u][TodayKey(now)] > 0
        /\ cursor[u][TodayKey(now)] < Len(plan[TodayKey(now)])

\* the answer counters of a user's rows and of the global rows
Counters(st) == [p \in Items |-> [attempts |-> st[p].attempts,
                                  wrong |-> st[p].wrong,
                                  correct |-> st[p].correct]]

\* the counters c with one more answer on item r
Counted(c, r, ok) ==
    [c EXCEPT ![r] = [attempts |-> @.attempts + 1,
                      wrong |-> @.wrong + (IF ok THEN 0 ELSE 1),
                      correct |-> @.correct + (IF ok THEN 1 ELSE 0)]]

\* C20: every recorded answer appends one log row; when the served item
\* resolves to no catalog id the row has a null item reference and no
\* per-user or global counter changes; when it resolves, the row carries the
\* resolved id and exactly that item's counters (the user's and the global
\* ones) are incremented.
C20_AnswerResolution ==
    [][(up /\ Len(log') = Len(log) + 1)
       => LET e == log'[Len(log')]
              u == e.user_id
              q == session[u]
              r == ResolvePictureId(q.q_picture_id, q.q_title, q.q_image_url,
                                    catalogSize)
          IN  /\ SubSeq(log', 1, Len(log)) = log
              /\ e.picture_id = r
              /\ \A v \in Users \ {u} : Counters(ups'[v]) = Counters(ups[v])
              /\ IF r = NoPid
                 THEN /\ Counters(gps') = Counters(gps)
                      /\ Counters(ups'[u]) = Counters(ups[u])
                 ELSE /\ Counters(gps') = Counted(Counters(gps), r, e.is_correct)
                      /\ Counters(ups'[u]) =
                            Counted(Counters(ups[u]), r, e.is_correct)]_vars

\* the user has answered an older version's question that resolves to no
\* item (logged with a null reference, nothing counted) and then a question
\* that resolves (logged with its id, counted once)
C20_Witness ==
    /\ Len(log) = 2
    /\ log[1].picture_id = NoPid
    /\ log[2].picture_id # NoPid
    /\ SumAttempts(gps, Items) = 1
    /\ gps[log[2].picture_id].attempts = 1
    /\ ups[1][log[2].picture_id].attempts = 1

\* C21: when the backfill completes, every per-user and global counter is
\* the count of the log's rows that resolve to its key, whatever the
\* aggregate tables held before (nothing, part of the log's counts or all of
\* them), and no counter is its prior value plus the count from the log.
C21_BackfillFromLogAlone ==
    [][(~backfillDone /\ backfillDone')
       => /\ \A p \in Items :
               /\ Counters(gps')[p] = LogAgg(0, p, catalogSize')
               /\ (gps[p].attempts > 0 /\ LogAgg(0, p, catalogSize').attempts > 0)
                  => gps'[p].attempts
                        # gps[p].attempts + LogAgg(0, p, catalogSize').attempts
          /\ \A u \in Users : \A p \in Items :
               /\ Counters(ups'[u])[p] = LogAgg(u, p, catalogSize')
               /\ (ups[u][p].attempts > 0 /\ LogAgg(u, p, catalogSize').attempts > 0)
                  => ups'[u][p].attempts
                        # ups[u][p].attempts + LogAgg(u, p, catalogSize').attempts]_vars

\* the backfill has run over tables that held all the counts of one item
\* and only part of the counts of another
C21_Witness ==
    /\ backfillDone
    /\ \E p, q \in Items :
        /\ prior.gps[p].attempts > 0
        /\ prior.gps[p] = gps[p]
        /\ prior.gps[q].attempts > 0
        /\ prior.gps[q].attempts < gps[q].attempts

\* C22: once the backfill has completed (over an empty or a non-empty log),
\* a later start of the process changes no counter, cycle row or log row
\* and leaves the flag set; a start whose backfill fails leaves the flag
\* unset and the aggregate tables as they were.
C22_BackfillOnce ==
    [][/\ (backfillDone /\ catalogSize' # catalogSize)
          => /\ backfillDone'
             /\ UNCHANGED <<gps, ups, cycle, log>>
       /\ (~up' /\ catalogSize' # catalogSize)
          => /\ ~backfillDone'
             /\ UNCHANGED <<gps, ups, cycle, log>>]_vars

\* the process has restarted with a larger catalog after a completed
\* backfill over a non-empty log, and a second recomputation would now
\* resolve a log row that is still stored without an id
C22_Witness ==
    /\ up
    /\ backfillDone
    /\ \E q \in Items : gps[q].attempts > 0
    /\ \E i \in 1..Len(log) :
          /\ log[i].picture_id = NoPid
          /\ LogResolved(i, catalogSize) # NoPid
          /\ gps[LogResolved(i, catalogSize)].attempts = 0

\* C23: the summary message of a notice (user, stats date) is sent at most
\* once, whatever sends fail; a notice that has been sent is never queued
\* or sent again; a failed send leaves the notice unsent; and an unsent
\* notice whose send has failed is attempted again by a later sweep.
C23_NoticeSentOnce ==
    /\ [](\A u \in Users, d \in Days : sent[u][d].sends <= 1)
    /\ [][\A u \in Users, d \in Days :
            /\ statsQueue[u][d] = "sent" => statsQueue'[u][d] = "sent"
            /\ statsQueue[u][d] # "none" => statsQueue'[u][d] # "none"
            /\ sent'[u][d].fails # sent[u][d].fails
                  => statsQueue'[u][d] = "unsent"]_vars
    /\ \A u \in Users, d \in Days :
          (statsQueue[u][d] = "unsent" /\ sent[u][d].fails = 1)
             ~> (sent[u][d].fails = MaxSends \/ statsQueue[u][d] = "sent")

\* a notice has been sent after its send had failed on earlier sweeps
C23_Witness ==
    \E u \in Users, d \in Days :
        /\ statsQueue[u][d] = "sent"
        /\ sent[u][d].sends = 1
        /\ sent[u][d].fails = MaxSends

\* the sum over the users S of the counters of item p
RECURSIVE UserTotal(_, _)
UserTotal(p, S) ==
    IF S = {} THEN [attempts |-> 0, wrong |-> 0, correct |-> 0]
    ELSE LET u == CHOOSE v \in S : TRUE
             rest == UserTotal(p, S \ {u})
         IN  [attempts |-> ups[u][p].attempts + rest.attempts,
              wrong |-> ups[u][p].wrong + rest.wrong,
              correct |-> ups[u][p].correct + rest.correct]

\* C24: however the answers of different users to one item interleave, no
\* increment is lost: the global counters of every item are the sums of the
\* users' counters, and attempts = wrong + correct in every aggregate row.
C24_NoLostIncrement ==
    \A p \in Items :
        /\ Counters(gps)[p] = UserTotal(p, Users)
        /\ gps[p].attempts = gps[p].wrong + gps[p].correct
        /\ \A u \in Users : ups[u][p].attempts = ups[u][p].wrong + ups[u][p].correct

\* two users have answered the same item
C24_Witness ==
    \E p \in Items :
        /\ \A u \in Users : ups[u][p].attempts > 0
        /\ gps[p].attempts = MaxUsers

\* C25: a step of one user's handler (peek, commit, skip, answer) leaves
\* the cursor, cycle, quota, session and per-item rows of every other user
\* as they were: while the process runs, the rows of a user change only in
\* steps of that user's own handler.
C25_OtherUsersUntouched ==
    [][\A v \in Users :
          (up /\ catalogSize' = catalogSize
              /\ pc'[v] = pc[v] /\ attempt'[v] = attempt[v])
          => UserState(v)' = UserState(v)]_vars

\* both users have been served and have answered, and their rows differ
C25_Witness ==
    /\ \A u \in Users : cursor[u][TodayKey(now)] > 0 /\ session[u].row
    /\ \A u \in Users : \E p \in Items : ups[u][p].attempts > 0
    /\ cursor[1] # cursor[MaxUsers]
    /\ ups[1] # ups[MaxUsers]
    /\ quota[1] # quota[MaxUsers]
    /\ session[1] # session[MaxUsers]

\* item p carries the seen mark of the user's current cycle
SeenThisCycle(u, p) ==
    cycle[u].cycle_id # 0 /\ ups[u][p].last_seen_cycle_id = cycle[u].cycle_id

\* C26: once a candidate for item X (NEW or REVIEW) taken in cycle C is
\* committed, no later peek returns a NEW candidate for X while the user's
\* cycle id is C: the commit marks X seen in C, which is the user's cycle;
\* the mark stays as long as the cycle id does, over days and restarts; and
\* a peek returns NEW only for an item without the mark of the cycle.
C26_CommittedNeverNewAgain ==
    [][\A u \in Users :
          /\ (pc[u] = "sending" /\ quota'[u] # quota[u])
             => /\ cand[u].cycle_id = cycle[u].cycle_id
                /\ cycle'[u].cycle_id = cycle[u].cycle_id
                /\ cycle'[u].cycle_id # 0
                /\ ups'[u][cand[u].picture_id].last_seen_cycle_id
                      = cycle'[u].cycle_id
          /\ \A p \in Items :
                (SeenThisCycle(u, p) /\ cycle'[u].cycle_id = cycle[u].cycle_id)
                => SeenThisCycle(u, p)'
          /\ (pc[u] = "peek" /\ pc'[u] = "sending" /\ cand'[u].kind = "NEW")
             => /\ cand'[u].cycle_id = cycle'[u].cycle_id
                /\ ups'[u][cand'[u].picture_id].last_seen_cycle_id
                      # cycle'[u].cycle_id]_vars

\* on a later day, whose plan is another one, the peek has passed the NEW
\* slot of an item committed the day before (marked seen, never answered)
\* and returned a later slot
C26_Witness ==
    \E u \in Users :
        /\ pc[u] = "sending"
        /\ cand[u].day_key > 0
        /\ plan[cand[u].day_key] # plan[cand[u].day_key - 1]
        /\ plan[cand[u].day_key - 1] # <<>>
        /\ \E i \in 1..cand[u].slot_index :
              /\ plan[cand[u].day_key][i].kind = "NEW"
              /\ SeenThisCycle(u, plan[cand[u].day_key][i].picture_id)
              /\ ups[u][plan[cand[u].day_key][i].picture_id].attempts = 0
        /\ quota[u][cand[u].day_key - 1] > 0

\* slot i (counted from 0) of the plan of day d passes its acceptance rule
\* for user u: a NEW slot of a catalog item without the seen mark of the
\* user's cycle, or a REVIEW slot that resolves to a catalog item the user
\* has attempted
Qualifies(u, d, i) ==
    LET slot == plan[d][i + 1]
    IN  \/ slot.kind = "NEW"
           /\ NewAccepts(slot, ups[u], cycle[u].cycle_id, catalogSize)
        \/ slot.kind = "REVIEW"
           /\ \E lst \in GetUserTopMistakes(ups[u], catalogSize) :
                 ReviewAccepts(ReviewPid(slot, lst, secret, u, d, i),
                               ups[u], catalogSize)

\* C27: whenever peek_next_candidate returns none, no slot of today's plan
\* at or after the cursor the user had qualifies, also when the plan is
\* longer than the scan cap.
C27_NoneMeansNothingLeft ==
    [][\A u \in Users :
          (pc[u] = "peek" /\ pc'[u] = "idle")
          => \A i \in 0..(Len(plan'[TodayKey(now)]) - 1) :
                i >= CursorOf(u, TodayKey(now))
                => ~(Qualifies(u, TodayKey(now), i))']_vars

\* C28: a candidate returned by peek_next_candidate is the first qualifying
\* slot at or after the user's stored cursor: its slot lies in today's plan
\* at or after the cursor and qualifies, every slot between the cursor and
\* it fails its acceptance rule, next_cursor = slot_index + 1, cycle_id is
\* the user's current cycle id, the kind is the slot's kind and the item is
\* in the catalog.
C28_FirstQualifyingSlot ==
    [][\A u \in Users :
          (pc[u] = "peek" /\ pc'[u] = "sending")
          => \E d \in Days : \E k \in 0..(Len(plan'[d]) - 1) :
                /\ d = TodayKey(now)
                /\ cand'[u].day_key = d
                /\ cand'[u].slot_index = k
                /\ cand'[u].next_cursor = k + 1
                /\ cand'[u].cycle_id = cycle'[u].cycle_id
                /\ cand'[u].kind = plan'[d][k + 1].kind
                /\ InCatalog(cand'[u].picture_id, catalogSize)
                /\ k >= CursorOf(u, d)
                /\ (Qualifies(u, d, k))'
                /\ \A i \in 0..(k - 1) :
                      i >= CursorOf(u, d) => ~(Qualifies(u, d, i))']_vars

\* a candidate is out whose slot lies two or more slots after the cursor,
\* a REVIEW slot among those passed
C28_Witness ==
    \E u \in Users :
        /\ pc[u] = "sending"
        /\ cand[u].day_key = TodayKey(now)
        /\ cand[u].slot_index >= CursorOf(u, cand[u].day_key) + 2
        /\ \E p \in Items : ups[u][p].attempts > 0

\* the slot list items has the layout of a plan for a catalog of n items
PlanShape(items, n) ==
    LET P == Max(0, REVIEW_PREFIX_SLOTS)
        E == REVIEW_EVERY
        T == Max(0, REVIEW_TAIL_SLOTS)
        newPos == {i \in 1..Len(items) : items[i].kind = "NEW"}
    IN  /\ \A i \in 1..Len(items) : items[i].kind \in {"NEW", "REVIEW"}
        /\ Cardinality(newPos) = n
        /\ {items[i].picture_id : i \in newPos} = 1..n
        /\ Len(items) >= P
        /\ \A i \in 1..P : items[i].kind = "REVIEW"
        /\ n > 0 => items[P + 1].kind = "NEW"
        /\ E >= 2 => /\ newPos = {P + j + ((j - 1) \div (E - 1)) : j \in 1..n}
                     /\ Len(items) = P + n + (n \div (E - 1)) + T
        /\ \A i \in 1..Len(items) :
              (\A j \in newPos : j < i) => items[i].kind = "REVIEW"

\* C29: every plan the generator stores has its NEW slots hold each catalog
\* id exactly once, REVIEW_PREFIX_SLOTS REVIEW slots before the first NEW
\* slot, one REVIEW slot after every REVIEW_EVERY - 1 consecutive NEW slots
\* when REVIEW_EVERY >= 2, and only REVIEW slots after the last NEW slot.
C29_PlanShape ==
    [][\A d \in Days :
          (plan[d] = <<>> /\ plan'[d] # <<>>) => PlanShape(plan'[d], catalogSize)]_vars

\* a plan is stored for three items with a prefix slot, a REVIEW slot after
\* every two NEW slots, and slots bound to items of the global ranking
C29_Witness ==
    \E d \in Days :
        /\ plan[d] # <<>>
        /\ cfg.REVIEW_EVERY = 3
        /\ cfg.REVIEW_PREFIX_SLOTS = 1
        /\ Cardinality({i \in 1..Len(plan[d]) : plan[d][i].kind = "NEW"}) = 3
        /\ \E i \in 1..Len(plan[d]) : plan[d][i].picture_id # NoPid
                                       /\ plan[d][i].kind = "REVIEW"

\* C30: a user's attempts on an item are positive (which is what makes the
\* item eligible as a REVIEW candidate) only if the item has been delivered
\* to the user, that is, committed with its seen mark or counted from the
\* answer log of an earlier deployment; an item whose delivery failed and
\* was skipped is never credited with an answer.
C30_AnsweredOnlyIfDelivered ==
    \A u \in Users : \A p \in Items :
        ups[u][p].attempts > 0 => ups[u][p].last_seen_cycle_id # 0

\* the catalog items that carry the seen mark of the user's current cycle
MarkedThisCycle(u) ==
    {p \in 1..catalogSize : ups[u][p].last_seen_cycle_id = cycle[u].cycle_id}

CommitStep(u) ==
    /\ pc[u] = "sending"
    /\ session[u].pending # NoPending
    /\ session'[u].pending = NoPending
    /\ cursor'[u][cand[u].day_key] = cand[u].next_cursor

\* C32: the commit of a candidate adds one to the daily quota of the
\* candidate's own day_key, the day whose cursor it advances, and to no other
\* day, also when the calendar day has changed since the peek.
C32_CommitCreditsCandidateDay ==
    [][\A u \in Users :
          CommitStep(u) =>
              \A d \in Days :
                  quota'[u][d] = quota[u][d] + (IF d = cand[u].day_key THEN 1 ELSE 0)]_vars

\* the attempts counters of user u
AttemptsOf(u) == [p \in Items |-> ups[u][p].attempts]

\* the log rows of user u
RowsOf(u) == {i \in 1..Len(log) : log[i].user_id = u}

\* C33: once an answer has been recorded for the question that was delivered
\* to user u (the question of the sessions row, committed), no further step
\* appends a log row of u or changes an attempts counter of u until another
\* question is stored.
C33_AnswerCountedOnce ==
    [][\A u \in Users :
          answered[u] /\ session[u].row /\ session[u].pending = NoPending
              => /\ Cardinality(RowsOf(u)') = Cardinality(RowsOf(u))
                 /\ AttemptsOf(u)' = AttemptsOf(u)]_vars

\* C34: with the sweep running for ever, a due unsent notice of a recipient
\* that can be reached (user 1) is eventually sent, also behind older due
\* notices whose sends fail on every sweep.
C34_DueNoticeEventuallySent ==
    \A d \in Days :
        (up /\ statsQueue[1][d] = "unsent" /\ StatsDue(d, now))
            ~> (statsQueue[1][d] = "sent")

====
